---------------------------- MODULE Spec2Model ----------------------------
(***************************************************************************)
(* Model of native-host/twitch_ad_muter_host.py: the native-messaging      *)
(* framing codec (read_message / write_message), the command dispatch      *)
(* (process_command) and the main loop.                                    *)
(*                                                                         *)
(* Byte strings and text strings are run-length encoded: a string is a     *)
(* sequence of runs <<c, n>> (n >= 1 copies of the byte or code point c),  *)
(* adjacent runs holding different c.  A payload of 1,048,576 bytes is     *)
(* then a handful of runs, and the program's real size limit is kept.      *)
(***************************************************************************)
EXTENDS Integers, Sequences, FiniteSets, Bags, TLC

(***************************************************************************)
(* Python bytes / str operations                                           *)
(***************************************************************************)

\* The operators below split a string in halves rather than walking it run by
\* run, which keeps the depth of evaluation logarithmic in the number of runs.

\* len(s): the lengths of the runs of s, indexed by their place, form a bag
\* whose cardinality is the sum of the lengths
BLen(s) == IF s = <<>> THEN 0 ELSE BagCardinality([i \in 1..Len(s) |-> s[i][2]])

\* a + b
BCat(a, b) ==
    IF a = <<>> THEN b
    ELSE IF b = <<>> THEN a
    ELSE IF a[Len(a)][1] = b[1][1]
         THEN SubSeq(a, 1, Len(a) - 1)
              \o << <<b[1][1], a[Len(a)][2] + b[1][2]>> >>
              \o Tail(b)
         ELSE a \o b

\* "".join(q) for a sequence q of strings
RECURSIVE BJoin(_)
BJoin(q) ==
    IF q = <<>> THEN <<>>
    ELSE IF Len(q) = 1 THEN q[1]
    ELSE LET h == Len(q) \div 2
         IN  BCat(BJoin(SubSeq(q, 1, h)), BJoin(SubSeq(q, h + 1, Len(q))))

\* s[:k]
RECURSIVE BTake(_, _)
BTake(s, k) ==
    IF k <= 0 \/ s = <<>> THEN <<>>
    ELSE IF Len(s) = 1
         THEN IF s[1][2] <= k THEN s ELSE << <<s[1][1], k>> >>
    ELSE LET h == Len(s) \div 2
             left == SubSeq(s, 1, h)
             n == BLen(left)
         IN  IF k <= n THEN BTake(left, k)
             ELSE left \o BTake(SubSeq(s, h + 1, Len(s)), k - n)

\* s[k:]
RECURSIVE BDrop(_, _)
BDrop(s, k) ==
    IF k <= 0 \/ s = <<>> THEN s
    ELSE IF Len(s) = 1
         THEN IF s[1][2] <= k THEN <<>> ELSE << <<s[1][1], s[1][2] - k>> >>
    ELSE LET h == Len(s) \div 2
             left == SubSeq(s, 1, h)
             n == BLen(left)
         IN  IF k >= n THEN BDrop(SubSeq(s, h + 1, Len(s)), k - n)
             ELSE BDrop(left, k) \o SubSeq(s, h + 1, Len(s))

\* c * n
BRep(c, n) == IF n <= 0 THEN <<>> ELSE << <<c, n>> >>

\* the string holding the elements of the plain sequence q
BOf(q) == BJoin([i \in 1..Len(q) |-> BRep(q[i], 1)])

\* s[0], for a non-empty s
BHead(s) == s[1][1]

\* the plain sequence of the first elements of s, for len(s) <= 4
BFlat(s) ==
    [i \in 1..BLen(s) |-> BHead(BDrop(s, i - 1))]

\* s.count(c)
RECURSIVE BCount(_, _)
BCount(s, c) ==
    IF s = <<>> THEN 0
    ELSE IF Len(s) = 1 THEN (IF s[1][1] = c THEN s[1][2] ELSE 0)
    ELSE LET h == Len(s) \div 2
         IN  BCount(SubSeq(s, 1, h), c) + BCount(SubSeq(s, h + 1, Len(s)), c)

\* s.rfind(c): the index of the last c in s, -1 when there is none
BRFind(s, c) ==
    LET at == {i \in 1..Len(s) : s[i][1] = c} IN
    IF at = {} THEN -1
    ELSE LET last == CHOOSE i \in at : \A j \in at : j <= i
         IN  BLen(SubSeq(s, 1, last)) - 1

\* whether a starts with b
BStartsWith(a, b) == BTake(a, BLen(b)) = b

\* the number of runs at the head of s whose element satisfies no stop test:
\* the index of the first run in `stops`, less one
PlainRuns(s, stops) ==
    IF stops = {} THEN Len(s)
    ELSE (CHOOSE i \in stops : \A j \in stops : i <= j) - 1

\* str(n) for an integer n >= 0, as a plain sequence of digit characters
RECURSIVE DecDigits(_)
DecDigits(n) ==
    IF n < 10 THEN <<48 + n>> ELSE DecDigits(n \div 10) \o <<48 + (n % 10)>>

\* str(n) for an integer n >= 0
Dec(n) == BOf(DecDigits(n))

\* one lower-case hexadecimal digit
HexDigit(d) == IF d < 10 THEN 48 + d ELSE 87 + d

(***************************************************************************)
(* message_bytes.decode("utf-8")                                           *)
(***************************************************************************)

\* the texts of a UnicodeDecodeError of the utf-8 codec
Utf8Text ==
    [\* "'utf-8' codec can't decode byte 0x"
     CantDecodeByte |->
         BOf(<<39, 117, 116, 102, 45, 56, 39, 32, 99, 111, 100, 101, 99, 32, 99,
               97, 110, 39, 116, 32, 100, 101, 99, 111, 100, 101, 32, 98, 121,
               116, 101, 32, 48, 120>>),
     \* "'utf-8' codec can't decode bytes in position "
     CantDecodeBytes |->
         BOf(<<39, 117, 116, 102, 45, 56, 39, 32, 99, 111, 100, 101, 99, 32, 99,
               97, 110, 39, 116, 32, 100, 101, 99, 111, 100, 101, 32, 98, 121,
               116, 101, 115, 32, 105, 110, 32, 112, 111, 115, 105, 116, 105,
               111, 110, 32>>),
     \* ' in position '
     InPosition |->
         BOf(<<32, 105, 110, 32, 112, 111, 115, 105, 116, 105, 111, 110, 32>>),
     \* ': invalid start byte'
     InvalidStart |->
         BOf(<<58, 32, 105, 110, 118, 97, 108, 105, 100, 32, 115, 116, 97, 114,
               116, 32, 98, 121, 116, 101>>),
     \* ': invalid continuation byte'
     InvalidContinuation |->
         BOf(<<58, 32, 105, 110, 118, 97, 108, 105, 100, 32, 99, 111, 110, 116,
               105, 110, 117, 97, 116, 105, 111, 110, 32, 98, 121, 116, 101>>),
     \* ': unexpected end of data'
     UnexpectedEnd |->
         BOf(<<58, 32, 117, 110, 101, 120, 112, 101, 99, 116, 101, 100, 32, 101,
               110, 100, 32, 111, 102, 32, 100, 97, 116, 97>>)]

\* whether b is a UTF-8 continuation byte for the position after `lead`
\* (the second byte of a sequence has a narrower range after E0, ED, F0, F4)
IsCont(b) == b >= 128 /\ b <= 191

SecondOk(lead, b) ==
    IF lead = 224 THEN b >= 160 /\ b <= 191
    ELSE IF lead = 237 THEN b >= 128 /\ b <= 159
    ELSE IF lead = 240 THEN b >= 144 /\ b <= 191
    ELSE IF lead = 244 THEN b >= 128 /\ b <= 143
    ELSE IsCont(b)

\* the number of bytes of the sequence a lead byte starts, 0 for no lead byte
SeqLen(lead) ==
    IF lead < 128 THEN 1
    ELSE IF lead >= 194 /\ lead <= 223 THEN 2
    ELSE IF lead >= 224 /\ lead <= 239 THEN 3
    ELSE IF lead >= 240 /\ lead <= 244 THEN 4
    ELSE 0

\* Decoding of the character at the head of the plain byte sequence q (up to
\* four bytes, fewer at the end of the data): the character and its width,
\* or the reason and the width of the range the UnicodeDecodeError names.
Utf8Char(q) ==
    LET n == SeqLen(q[1]) IN
    IF n = 0 THEN [ok |-> FALSE, width |-> 1, reason |-> Utf8Text.InvalidStart]
    ELSE IF n = 1 THEN [ok |-> TRUE, width |-> 1, cp |-> q[1]]
    ELSE IF Len(q) < 2
         THEN [ok |-> FALSE, width |-> 1, reason |-> Utf8Text.UnexpectedEnd]
    ELSE IF ~SecondOk(q[1], q[2])
         THEN [ok |-> FALSE, width |-> 1, reason |-> Utf8Text.InvalidContinuation]
    ELSE IF n = 2
         THEN [ok |-> TRUE, width |-> 2,
               cp |-> (q[1] - 192) * 64 + (q[2] - 128)]
    ELSE IF Len(q) < 3
         THEN [ok |-> FALSE, width |-> 2, reason |-> Utf8Text.UnexpectedEnd]
    ELSE IF ~IsCont(q[3])
         THEN [ok |-> FALSE, width |-> 2, reason |-> Utf8Text.InvalidContinuation]
    ELSE IF n = 3
         THEN [ok |-> TRUE, width |-> 3,
               cp |-> (q[1] - 224) * 4096 + (q[2] - 128) * 64 + (q[3] - 128)]
    ELSE IF Len(q) < 4
         THEN [ok |-> FALSE, width |-> 3, reason |-> Utf8Text.UnexpectedEnd]
    ELSE IF ~IsCont(q[4])
         THEN [ok |-> FALSE, width |-> 3, reason |-> Utf8Text.InvalidContinuation]
    ELSE [ok |-> TRUE, width |-> 4,
          cp |-> (q[1] - 240) * 262144 + (q[2] - 128) * 4096
                 + (q[3] - 128) * 64 + (q[4] - 128)]

\* str(e) of the UnicodeDecodeError for the range [start, start + width)
UnicodeDecodeErrorText(byte, start, width, reason) ==
    IF width = 1
    THEN BCat(BCat(BCat(BCat(Utf8Text.CantDecodeByte,
                             BOf(<<HexDigit(byte \div 16), HexDigit(byte % 16)>>)),
                        Utf8Text.InPosition), Dec(start)), reason)
    ELSE BCat(BCat(BCat(BCat(Utf8Text.CantDecodeBytes, Dec(start)), BOf(<<45>>)),
                   Dec(start + width - 1)), reason)

\* r.decode("utf-8") for the bytes r that start at offset pos of the payload,
\* acc the text decoded so far: the text, or the UnicodeDecodeError's text.
\* The ASCII bytes before the first byte above 127 decode to themselves.
RECURSIVE Utf8Decode(_, _, _)

\* the number of runs of ASCII bytes r starts with
AsciiRuns(r) == PlainRuns(r, {i \in 1..Len(r) : r[i][1] >= 128})

\* the character c decoded at the head of rest, which is at offset `at`
DecodeChar(rest, at, acc, c) ==
    IF c.ok
    THEN Utf8Decode(BDrop(rest, c.width), at + c.width,
                    BCat(acc, BRep(c.cp, 1)))
    ELSE [ok |-> FALSE,
          e |-> UnicodeDecodeErrorText(BHead(rest), at, c.width, c.reason)]

\* the bytes `rest` from the first byte above 127 on, at offset `at`
DecodeRest(rest, at, acc) ==
    IF rest = <<>> THEN [ok |-> TRUE, s |-> acc]
    ELSE DecodeChar(rest, at, acc, Utf8Char(BFlat(BTake(rest, 4))))

Utf8Decode(r, pos, acc) ==
    DecodeRest(SubSeq(r, AsciiRuns(r) + 1, Len(r)),
               pos + BLen(SubSeq(r, 1, AsciiRuns(r))),
               BCat(acc, SubSeq(r, 1, AsciiRuns(r))))

\* message_bytes.decode("utf-8")
decode_utf8(message_bytes) == Utf8Decode(message_bytes, 0, <<>>)

(***************************************************************************)
(* json.loads(message_str)                                                 *)
(*                                                                         *)
(* JSON values: [t |-> "null"], [t |-> "bool", b], [t |-> "int", neg,       *)
(* digits], [t |-> "str", s], [t |-> "arr", items], [t |-> "obj", members]  *)
(* with members a sequence of [k, v] in document order.  The scanner       *)
(* follows CPython's json module; floats (a fraction or an exponent, NaN,  *)
(* Infinity) and \u escapes are reported as "unmodelled" and no input of   *)
(* the model uses them (TypeOK).                                           *)
(***************************************************************************)

JNull == [t |-> "null"]
JBool(b) == [t |-> "bool", b |-> b]
JInt(neg, digits) == [t |-> "int", neg |-> neg, digits |-> digits]
JStr(s) == [t |-> "str", s |-> s]
JArr(items) == [t |-> "arr", items |-> items]
JObj(members) == [t |-> "obj", members |-> members]

\* the texts of the json module: the messages of JSONDecodeError, the
\* literals, and the separators json.dumps puts between items and after keys
JsonText ==
    [\* 'Expecting value'
     ExpectingValue |->
         BOf(<<69, 120, 112, 101, 99, 116, 105, 110, 103, 32, 118, 97, 108, 117,
               101>>),
     \* 'Expecting property name enclosed in double quotes'
     ExpectingName |->
         BOf(<<69, 120, 112, 101, 99, 116, 105, 110, 103, 32, 112, 114, 111,
               112, 101, 114, 116, 121, 32, 110, 97, 109, 101, 32, 101, 110, 99,
               108, 111, 115, 101, 100, 32, 105, 110, 32, 100, 111, 117, 98,
               108, 101, 32, 113, 117, 111, 116, 101, 115>>),
     \* "Expecting ':' delimiter"
     ExpectingColon |->
         BOf(<<69, 120, 112, 101, 99, 116, 105, 110, 103, 32, 39, 58, 39, 32,
               100, 101, 108, 105, 109, 105, 116, 101, 114>>),
     \* "Expecting ',' delimiter"
     ExpectingComma |->
         BOf(<<69, 120, 112, 101, 99, 116, 105, 110, 103, 32, 39, 44, 39, 32,
               100, 101, 108, 105, 109, 105, 116, 101, 114>>),
     \* 'Unterminated string starting at'
     Unterminated |->
         BOf(<<85, 110, 116, 101, 114, 109, 105, 110, 97, 116, 101, 100, 32,
               115, 116, 114, 105, 110, 103, 32, 115, 116, 97, 114, 116, 105,
               110, 103, 32, 97, 116>>),
     \* 'Invalid control character at'
     InvalidControl |->
         BOf(<<73, 110, 118, 97, 108, 105, 100, 32, 99, 111, 110, 116, 114, 111,
               108, 32, 99, 104, 97, 114, 97, 99, 116, 101, 114, 32, 97, 116>>),
     \* 'Invalid \\escape'
     InvalidEscape |->
         BOf(<<73, 110, 118, 97, 108, 105, 100, 32, 92, 101, 115, 99, 97, 112,
               101>>),
     \* 'Extra data'
     ExtraData |->
         BOf(<<69, 120, 116, 114, 97, 32, 100, 97, 116, 97>>),
     \* 'Unexpected UTF-8 BOM (decode using utf-8-sig)'
     UnexpectedBOM |->
         BOf(<<85, 110, 101, 120, 112, 101, 99, 116, 101, 100, 32, 85, 84, 70,
               45, 56, 32, 66, 79, 77, 32, 40, 100, 101, 99, 111, 100, 101, 32,
               117, 115, 105, 110, 103, 32, 117, 116, 102, 45, 56, 45, 115, 105,
               103, 41>>),
     \* ': line '
     Line |->
         BOf(<<58, 32, 108, 105, 110, 101, 32>>),
     \* ' column '
     Column |->
         BOf(<<32, 99, 111, 108, 117, 109, 110, 32>>),
     \* ' (char '
     Char |->
         BOf(<<32, 40, 99, 104, 97, 114, 32>>),
     \* 'null'
     null |->
         BOf(<<110, 117, 108, 108>>),
     \* 'true'
     true |->
         BOf(<<116, 114, 117, 101>>),
     \* 'false'
     false |->
         BOf(<<102, 97, 108, 115, 101>>),
     \* 'NaN'
     NaN |->
         BOf(<<78, 97, 78>>),
     \* 'Infinity'
     Infinity |->
         BOf(<<73, 110, 102, 105, 110, 105, 116, 121>>),
     \* ', '
     CommaSpace |->
         BOf(<<44, 32>>),
     \* ': '
     ColonSpace |->
         BOf(<<58, 32>>)]

\* The deepest nesting of arrays and objects json.loads parses when called
\* from read_message under CPython's default recursion limit of 1000; one
\* level more raises RecursionError, which is not a JSONDecodeError.
MaxJsonDepth == 993

\* sys.int_info.default_max_str_digits: an integer literal of more digits
\* makes int() raise a plain ValueError, which is not a JSONDecodeError.
MaxIntDigits == 4300

JOk(v, end) == [st |-> "ok", v |-> v, end |-> end]
\* raise JSONDecodeError(msg, doc, pos)
JErr(msg, pos) == [st |-> "err", msg |-> msg, pos |-> pos]
\* an exception of another class raised inside json.loads
JRaise(exc) == [st |-> "raise", exc |-> exc]
JUnmodelled == [st |-> "unmodelled"]

IsWs(c) == c \in {32, 9, 10, 13}
IsDigit(c) == c >= 48 /\ c <= 57

\* the length of the whitespace r starts with (WHITESPACE.match)
WsLen(r) ==
    BLen(SubSeq(r, 1, PlainRuns(r, {i \in 1..Len(r) : ~IsWs(r[i][1])})))

\* the number of decimal digits r starts with
DigitsLen(r) ==
    BLen(SubSeq(r, 1, PlainRuns(r, {i \in 1..Len(r) : ~IsDigit(r[i][1])})))

\* the character a simple escape \c stands for, -1 for an invalid escape
EscapeChar(c) ==
    IF c \in {34, 92, 47} THEN c
    ELSE IF c = 98 THEN 8
    ELSE IF c = 102 THEN 12
    ELSE IF c = 110 THEN 10
    ELSE IF c = 114 THEN 13
    ELSE IF c = 116 THEN 9
    ELSE -1

\* scanstring: r follows the opening quote, p is its position, begin the
\* position of the opening quote, acc the characters scanned so far.  The
\* characters before the first quote, backslash or control character are
\* taken as they are.
RECURSIVE ScanString(_, _, _, _)

\* the number of runs of plain characters r starts with
StringRuns(r) ==
    PlainRuns(r, {i \in 1..Len(r) : r[i][1] \in {34, 92} \/ r[i][1] < 32})

\* the escape whose backslash is at position `at`, r1 the text after it
ScanEscape(r1, at, begin, acc) ==
    IF r1 = <<>> THEN JErr(JsonText.Unterminated, begin)
    ELSE IF BHead(r1) = 117 THEN JUnmodelled
    ELSE IF EscapeChar(BHead(r1)) = -1 THEN JErr(JsonText.InvalidEscape, at)
    ELSE ScanString(BDrop(r1, 1), at + 2, begin,
                    BCat(acc, BRep(EscapeChar(BHead(r1)), 1)))

\* the text `rest` from the first character that is not plain, at `at`
ScanStop(rest, at, begin, acc) ==
    IF rest = <<>> THEN JErr(JsonText.Unterminated, begin)
    ELSE IF BHead(rest) = 34 THEN JOk(JStr(acc), at + 1)
    ELSE IF BHead(rest) = 92 THEN ScanEscape(BDrop(rest, 1), at, begin, acc)
    ELSE JErr(JsonText.InvalidControl, at)

ScanString(r, p, begin, acc) ==
    ScanStop(SubSeq(r, StringRuns(r) + 1, Len(r)),
             p + BLen(SubSeq(r, 1, StringRuns(r))), begin,
             BCat(acc, SubSeq(r, 1, StringRuns(r))))

\* NUMBER_RE, (-?(?:0|[1-9]\d*))(\.\d+)?([eE][-+]?\d+)?: the length of the
\* integer part r starts with (after the sign)
IntLen(r) == IF r # <<>> /\ BHead(r) = 48 THEN 1 ELSE DigitsLen(r)

\* whether r starts with a fraction part
HasFraction(r) ==
    r # <<>> /\ BHead(r) = 46 /\ DigitsLen(BDrop(r, 1)) > 0

\* whether r starts with an exponent part
HasExponent(r) ==
    /\ r # <<>>
    /\ BHead(r) \in {69, 101}
    /\ \/ DigitsLen(BDrop(r, 1)) > 0
       \/ /\ BDrop(r, 1) # <<>>
          /\ BHead(BDrop(r, 1)) \in {43, 45}
          /\ DigitsLen(BDrop(r, 2)) > 0

\* the number whose integer part is the first n characters of r, neg telling
\* whether a minus sign stands before r; a float is outside the model
ScanInt(r, n, p, neg) ==
    IF n = 0
    THEN IF neg /\ BStartsWith(r, JsonText.Infinity) THEN JUnmodelled
         ELSE JErr(JsonText.ExpectingValue, p)
    ELSE IF HasFraction(BDrop(r, n)) \/ HasExponent(BDrop(r, n))
         THEN JUnmodelled
    ELSE IF n > MaxIntDigits THEN JRaise("ValueError")
    ELSE JOk(JInt(neg /\ BTake(r, n) # BOf(<<48>>), BTake(r, n)),
             p + n + (IF neg THEN 1 ELSE 0))

\* the number literal r starts with, r starting with - or a digit
ScanNumber(r, p) ==
    IF BHead(r) = 45 THEN ScanInt(BDrop(r, 1), IntLen(BDrop(r, 1)), p, TRUE)
    ELSE ScanInt(r, IntLen(r), p, FALSE)

\* message.get(key): the value of the key, None when it is absent
DictGet(members, key) ==
    LET at == {i \in 1..Len(members) : members[i].k = key} IN
    IF at = {} THEN JNull ELSE members[CHOOSE i \in at : TRUE].v

\* d[key] = value on the members of a dict: a key keeps its first place
DictSet(members, key, value) ==
    IF \E i \in 1..Len(members) : members[i].k = key
    THEN [i \in 1..Len(members) |->
             IF members[i].k = key THEN [k |-> key, v |-> value]
             ELSE members[i]]
    ELSE Append(members, [k |-> key, v |-> value])

\* scan_once on one of the literals, or on a number
ScanLiteral(r, p) ==
    LET c == BHead(r) IN
    IF c = 110 /\ BStartsWith(r, JsonText.null) THEN JOk(JNull, p + 4)
    ELSE IF c = 116 /\ BStartsWith(r, JsonText.true) THEN JOk(JBool(TRUE), p + 4)
    ELSE IF c = 102 /\ BStartsWith(r, JsonText.false) THEN JOk(JBool(FALSE), p + 5)
    ELSE IF c = 78 /\ BStartsWith(r, JsonText.NaN) THEN JUnmodelled
    ELSE IF c = 73 /\ BStartsWith(r, JsonText.Infinity) THEN JUnmodelled
    ELSE IF c = 45 \/ IsDigit(c) THEN ScanNumber(r, p)
    ELSE JErr(JsonText.ExpectingValue, p)

\* _parse_object, from a key to the value after it: the key k, the text rb
\* at position pb after the key and the white space behind it
KeyColon(k, rb, pb) ==
    IF rb = <<>> \/ BHead(rb) # 58 THEN JErr(JsonText.ExpectingColon, pb)
    ELSE [st |-> "ok", key |-> k.v.s,
          r |-> BDrop(rb, 1 + WsLen(BDrop(rb, 1))),
          p |-> pb + 1 + WsLen(BDrop(rb, 1))]

\* the key k that scanstring read from the text r at position p
KeyRead(r, p, k) ==
    IF k.st # "ok" THEN k
    ELSE KeyColon(k, BDrop(r, k.end - p + WsLen(BDrop(r, k.end - p))),
                  k.end + WsLen(BDrop(r, k.end - p)))

\* r stands at position p, where a key is expected: the key, and the text
\* and the position of its value
ParseKey(r, p) ==
    IF r = <<>> \/ BHead(r) # 34 THEN JErr(JsonText.ExpectingName, p)
    ELSE KeyRead(r, p, ScanString(BDrop(r, 1), p + 1, p, <<>>))

\* The scanner as a machine: scan_once, _parse_object and _parse_array call
\* each other, and the machine keeps their calls on a stack, one frame for
\* each object ([t |-> "obj", members, key], key being the key whose value is
\* being read) and each array ([t |-> "arr", items]) that is open.  Mode
\* "expect": a value is expected at position p, r the text from p on.  Mode
\* "value": the value v was read and ends at p.  Mode "done": res is the
\* outcome.
Expect(r, p, stack) == [mode |-> "expect", r |-> r, p |-> p, stack |-> stack]
Value(v, r, p, stack) ==
    [mode |-> "value", v |-> v, r |-> r, p |-> p, stack |-> stack]
Done(res) == [mode |-> "done", res |-> res]

\* the stack without its top frame, and with its top frame replaced
Pop(stack) == SubSeq(stack, 1, Len(stack) - 1)
Top(stack) == stack[Len(stack)]

\* the object with `members` so far goes on with the key that was parsed
NextMember(key, members, stack) ==
    IF key.st # "ok" THEN Done(key)
    ELSE Expect(key.r, key.p,
                Append(stack, [t |-> "obj", members |-> members,
                               key |-> key.key]))

\* after the opening brace and white space: r at position p
EnterObject(r, p, stack) ==
    IF r # <<>> /\ BHead(r) = 125
    THEN Value(JObj(<<>>), BDrop(r, 1), p + 1, stack)
    ELSE NextMember(ParseKey(r, p), <<>>, stack)

\* after the opening bracket and white space: r at position p
EnterArray(r, p, stack) ==
    IF r # <<>> /\ BHead(r) = 93
    THEN Value(JArr(<<>>), BDrop(r, 1), p + 1, stack)
    ELSE Expect(r, p, Append(stack, [t |-> "arr", items |-> <<>>]))

\* the string, number or literal v scanned from r at position p
Scalar(r, p, stack, v) ==
    IF v.st # "ok" THEN Done(v)
    ELSE Value(v.v, BDrop(r, v.end - p), v.end, stack)

\* a value is expected: an opening brace or bracket enters an object or an
\* array (a run of n brackets enters n arrays before anything else can fail,
\* and raises RecursionError exactly when the depth passes the limit)
StepExpect(r, p, stack) ==
    IF r = <<>> THEN Done(JErr(JsonText.ExpectingValue, p))
    ELSE IF BHead(r) = 123
    THEN IF Len(stack) + 1 > MaxJsonDepth THEN Done(JRaise("RecursionError"))
         ELSE EnterObject(BDrop(r, 1 + WsLen(BDrop(r, 1))),
                          p + 1 + WsLen(BDrop(r, 1)), stack)
    ELSE IF BHead(r) = 91
    THEN IF Len(stack) + r[1][2] > MaxJsonDepth
         THEN Done(JRaise("RecursionError"))
         ELSE EnterArray(BDrop(r, 1 + WsLen(BDrop(r, 1))),
                         p + 1 + WsLen(BDrop(r, 1)), stack)
    ELSE IF BHead(r) = 34
    THEN Scalar(r, p, stack, ScanString(BDrop(r, 1), p + 1, p, <<>>))
    ELSE Scalar(r, p, stack, ScanLiteral(r, p))

\* the array of the top frame has the items `items`: the bracket closes the
\* array, which is then a value itself; a comma is followed by the next item
StepItem(items, r, p, stack) ==
    IF r # <<>> /\ BHead(r) = 93
    THEN Value(JArr(items), BDrop(r, 1), p + 1, Pop(stack))
    ELSE IF r = <<>> \/ BHead(r) # 44 THEN Done(JErr(JsonText.ExpectingComma, p))
    ELSE Expect(BDrop(r, 1 + WsLen(BDrop(r, 1))),
                p + 1 + WsLen(BDrop(r, 1)),
                Append(Pop(stack), [t |-> "arr", items |-> items]))

\* the object of the top frame has the members `members`: the brace closes
\* the object; a comma is followed by the next key
StepMember(members, r, p, stack) ==
    IF r # <<>> /\ BHead(r) = 125
    THEN Value(JObj(members), BDrop(r, 1), p + 1, Pop(stack))
    ELSE IF r = <<>> \/ BHead(r) # 44 THEN Done(JErr(JsonText.ExpectingComma, p))
    ELSE NextMember(ParseKey(BDrop(r, 1 + WsLen(BDrop(r, 1))),
                             p + 1 + WsLen(BDrop(r, 1))),
                    members, Pop(stack))

\* one step of the scanner: a value that was read ends the scan when no
\* object or array is open, and else joins the one of the top frame
Step(s) ==
    IF s.mode = "expect" THEN StepExpect(s.r, s.p, s.stack)
    ELSE IF s.stack = <<>> THEN Done(JOk(s.v, s.p))
    ELSE IF Top(s.stack).t = "arr"
         THEN StepItem(Append(Top(s.stack).items, s.v),
                       BDrop(s.r, WsLen(s.r)), s.p + WsLen(s.r), s.stack)
    ELSE StepMember(DictSet(Top(s.stack).members, Top(s.stack).key, s.v),
                    BDrop(s.r, WsLen(s.r)), s.p + WsLen(s.r), s.stack)

RECURSIVE Scan(_)
Scan(s) == IF s.mode = "done" THEN s.res ELSE Scan(Step(s))

\* scan_once(s, idx): the value that starts at position p, r the text from p
ScanOnce(r, p) == Scan(Expect(r, p, <<>>))

\* str(e) of JSONDecodeError(msg, doc, pos)
JSONDecodeErrorText(msg, doc, pos) ==
    BCat(BCat(BCat(BCat(BCat(BCat(BCat(msg, JsonText.Line),
                                  Dec(BCount(BTake(doc, pos), 10) + 1)),
                             JsonText.Column),
                        Dec(pos - BRFind(BTake(doc, pos), 10))),
                   JsonText.Char), Dec(pos)), BOf(<<41>>))

\* JSONDecoder.decode after raw_decode: the value v ends at position `end`,
\* white space skipped, and nothing may follow it
DecodeEnd(message_str, v, end) ==
    IF end # BLen(message_str)
    THEN [st |-> "err",
          e |-> JSONDecodeErrorText(JsonText.ExtraData, message_str, end)]
    ELSE [st |-> "ok", v |-> v]

\* JSONDecoder.decode on the outcome res of the scanner
Decoded(message_str, res) ==
    IF res.st = "err"
    THEN [st |-> "err",
          e |-> JSONDecodeErrorText(res.msg, message_str, res.pos)]
    ELSE IF res.st # "ok" THEN res
    ELSE DecodeEnd(message_str, res.v,
                   res.end + WsLen(BDrop(message_str, res.end)))

\* json.loads(message_str): [st |-> "ok", v] for the parsed value,
\* [st |-> "err", e] for a JSONDecodeError with text e, [st |-> "raise", exc]
\* for an exception of another class
json_loads(message_str) ==
    IF message_str # <<>> /\ BHead(message_str) = 65279
    THEN [st |-> "err",
          e |-> JSONDecodeErrorText(JsonText.UnexpectedBOM, message_str, 0)]
    ELSE Decoded(message_str,
                 ScanOnce(BDrop(message_str, WsLen(message_str)),
                          WsLen(message_str)))

(***************************************************************************)
(* json.dumps(message), str(command) and the truth value of a command      *)
(***************************************************************************)

\* the keys and the commands of the protocol
Word ==
    [\* 'success'
     success |->
         BOf(<<115, 117, 99, 99, 101, 115, 115>>),
     \* 'error'
     error |->
         BOf(<<101, 114, 114, 111, 114>>),
     \* 'muted'
     muted |->
         BOf(<<109, 117, 116, 101, 100>>),
     \* 'command'
     command |->
         BOf(<<99, 111, 109, 109, 97, 110, 100>>),
     \* 'mute'
     mute |->
         BOf(<<109, 117, 116, 101>>),
     \* 'unmute'
     unmute |->
         BOf(<<117, 110, 109, 117, 116, 101>>),
     \* 'getStatus'
     getStatus |->
         BOf(<<103, 101, 116, 83, 116, 97, 116, 117, 115>>)]

\* repr() of None, True and False
ReprText ==
    [\* 'None'
     None |->
         BOf(<<78, 111, 110, 101>>),
     \* 'True'
     True |->
         BOf(<<84, 114, 117, 101>>),
     \* 'False'
     False |->
         BOf(<<70, 97, 108, 115, 101>>)]

\* the text json.dumps writes for the character c (ensure_ascii): the
\* character itself, a two-character escape, or \uXXXX (a surrogate pair
\* above U+FFFF)
HexQuad(n) ==
    BOf(<<92, 117, HexDigit(n \div 4096), HexDigit((n \div 256) % 16),
          HexDigit((n \div 16) % 16), HexDigit(n % 16)>>)

EscapeAscii(c) ==
    IF c = 34 THEN BOf(<<92, 34>>)
    ELSE IF c = 92 THEN BOf(<<92, 92>>)
    ELSE IF c = 10 THEN BOf(<<92, 110>>)
    ELSE IF c = 13 THEN BOf(<<92, 114>>)
    ELSE IF c = 9 THEN BOf(<<92, 116>>)
    ELSE IF c = 8 THEN BOf(<<92, 98>>)
    ELSE IF c = 12 THEN BOf(<<92, 102>>)
    ELSE IF c >= 32 /\ c <= 126 THEN BRep(c, 1)
    ELSE IF c < 65536 THEN HexQuad(c)
    ELSE BCat(HexQuad(55296 + ((c - 65536) \div 1024)),
              HexQuad(56320 + ((c - 65536) % 1024)))

\* the quoted, escaped form of the string s
EncodeString(s) ==
    LET run(i) ==
            IF s[i][1] >= 32 /\ s[i][1] <= 126 /\ s[i][1] \notin {34, 92}
            THEN <<s[i]>>
            ELSE BJoin([j \in 1..s[i][2] |-> EscapeAscii(s[i][1])])
    IN  BCat(BCat(BOf(<<34>>), BJoin([i \in 1..Len(s) |-> run(i)])),
             BOf(<<34>>))

\* q[1] + sep + q[2] + sep + ... (sep.join(q))
JoinWith(sep, q) ==
    BJoin([i \in 1..(2 * Len(q) - 1) |->
              IF i % 2 = 1 THEN q[(i + 1) \div 2] ELSE sep])

\* json.dumps(v) with the default separators
RECURSIVE json_dumps(_)
json_dumps(v) ==
    IF v.t = "null" THEN JsonText.null
    ELSE IF v.t = "bool" THEN (IF v.b THEN JsonText.true ELSE JsonText.false)
    ELSE IF v.t = "int" THEN BCat(BRep(45, IF v.neg THEN 1 ELSE 0), v.digits)
    ELSE IF v.t = "str" THEN EncodeString(v.s)
    ELSE IF v.t = "arr"
         THEN BCat(BCat(BOf(<<91>>),
                        JoinWith(JsonText.CommaSpace,
                                 [i \in 1..Len(v.items) |->
                                     json_dumps(v.items[i])])),
                   BOf(<<93>>))
    ELSE BCat(BCat(BOf(<<123>>),
                   JoinWith(JsonText.CommaSpace,
                            [i \in 1..Len(v.members) |->
                                BCat(BCat(EncodeString(v.members[i].k),
                                          JsonText.ColonSpace),
                                     json_dumps(v.members[i].v))])),
              BOf(<<125>>))

\* repr(s) of a string of ASCII characters: single quotes unless s holds a
\* single quote and no double quote
ReprString(s) ==
    LET has(c) == \E i \in 1..Len(s) : s[i][1] = c
        q == IF has(39) /\ ~has(34) THEN 34 ELSE 39
        esc(c) ==
            IF c = 92 THEN BOf(<<92, 92>>)
            ELSE IF c = q THEN BOf(<<92, q>>)
            ELSE IF c = 10 THEN BOf(<<92, 110>>)
            ELSE IF c = 13 THEN BOf(<<92, 114>>)
            ELSE IF c = 9 THEN BOf(<<92, 116>>)
            ELSE IF c < 32 \/ c = 127
                 THEN BOf(<<92, 120, HexDigit(c \div 16), HexDigit(c % 16)>>)
            ELSE BRep(c, 1)
        run(i) ==
            IF s[i][1] >= 32 /\ s[i][1] <= 126 /\ s[i][1] \notin {92, q}
            THEN <<s[i]>>
            ELSE BJoin([j \in 1..s[i][2] |-> esc(s[i][1])])
    IN  BCat(BCat(BRep(q, 1), BJoin([i \in 1..Len(s) |-> run(i)])),
             BRep(q, 1))

\* repr(v) of a parsed JSON value
RECURSIVE Repr(_)
Repr(v) ==
    IF v.t = "null" THEN ReprText.None
    ELSE IF v.t = "bool" THEN (IF v.b THEN ReprText.True ELSE ReprText.False)
    ELSE IF v.t = "int" THEN BCat(BRep(45, IF v.neg THEN 1 ELSE 0), v.digits)
    ELSE IF v.t = "str" THEN ReprString(v.s)
    ELSE IF v.t = "arr"
         THEN BCat(BCat(BOf(<<91>>),
                        JoinWith(JsonText.CommaSpace,
                                 [i \in 1..Len(v.items) |-> Repr(v.items[i])])),
                   BOf(<<93>>))
    ELSE BCat(BCat(BOf(<<123>>),
                   JoinWith(JsonText.CommaSpace,
                            [i \in 1..Len(v.members) |->
                                BCat(BCat(ReprString(v.members[i].k),
                                          JsonText.ColonSpace),
                                     Repr(v.members[i].v))])),
              BOf(<<125>>))

\* f"{command}": str(command), a string as it is and any other value by repr
Format(command) == IF command.t = "str" THEN command.s ELSE Repr(command)

\* bool(command): None, False, 0, "", [] and {} are false
Truthy(v) ==
    IF v.t = "null" THEN FALSE
    ELSE IF v.t = "bool" THEN v.b
    ELSE IF v.t = "int" THEN v.digits # BOf(<<48>>)
    ELSE IF v.t = "str" THEN v.s # <<>>
    ELSE IF v.t = "arr" THEN v.items # <<>>
    ELSE v.members # <<>>

(***************************************************************************)
(* struct.unpack("<I", ...) and struct.pack("<I", ...)                     *)
(*                                                                         *)
(* An unsigned 32-bit length is held as [hi, lo] with value                *)
(* hi * 100000 + lo and 0 <= lo < 100000, so that lengths up to 2^32 - 1   *)
(* are compared and printed exactly.                                       *)
(***************************************************************************)

\* struct.unpack("<I", length_bytes)[0], length_bytes a plain sequence of 4
unpack_uint32(q) ==
    LET low == q[4] * 77216 + q[3] * 65536 + q[2] * 256 + q[1]
    IN  [hi |-> q[4] * 167 + (low \div 100000), lo |-> low % 100000]

\* the length n as an unsigned 32-bit value
U32(n) == [hi |-> n \div 100000, lo |-> n % 100000]

\* a > b
U32Greater(a, b) == a.hi > b.hi \/ (a.hi = b.hi /\ a.lo > b.lo)

\* str(a)
U32Text(a) ==
    IF a.hi = 0 THEN Dec(a.lo)
    ELSE BCat(Dec(a.hi),
              BCat(BRep(48, 5 - BLen(Dec(a.lo))), Dec(a.lo)))

\* a as an integer, for a length that passed the size check
U32Int(a) == a.hi * 100000 + a.lo

\* struct.pack("<I", n): the 4 bytes of n, least significant first
pack_uint32(n) ==
    BOf(<<n % 256, (n \div 256) % 256, (n \div 65536) % 256,
          (n \div 16777216) % 256>>)

\* text.encode("utf-8") of a text without surrogates
Utf8Encode(s) ==
    LET enc(c) ==
            IF c < 128 THEN BRep(c, 1)
            ELSE IF c < 2048 THEN BOf(<<192 + (c \div 64), 128 + (c % 64)>>)
            ELSE IF c < 65536
                 THEN BOf(<<224 + (c \div 4096), 128 + ((c \div 64) % 64),
                            128 + (c % 64)>>)
            ELSE BOf(<<240 + (c \div 262144), 128 + ((c \div 4096) % 64),
                       128 + ((c \div 64) % 64), 128 + (c % 64)>>)
        run(i) == IF s[i][1] < 128 THEN <<s[i]>>
                  ELSE BJoin([j \in 1..s[i][2] |-> enc(s[i][1])])
    IN  BJoin([i \in 1..Len(s) |-> run(i)])

(***************************************************************************)
(* read_message                                                            *)
(***************************************************************************)

\* the texts of the MessageReadErrors of read_message
ReadText ==
    [\* 'Invalid length prefix: expected 4 bytes, got '
     InvalidLengthPrefix |->
         BOf(<<73, 110, 118, 97, 108, 105, 100, 32, 108, 101, 110, 103, 116,
               104, 32, 112, 114, 101, 102, 105, 120, 58, 32, 101, 120, 112,
               101, 99, 116, 101, 100, 32, 52, 32, 98, 121, 116, 101, 115, 44,
               32, 103, 111, 116, 32>>),
     \* 'Message too large: '
     MessageTooLarge |->
         BOf(<<77, 101, 115, 115, 97, 103, 101, 32, 116, 111, 111, 32, 108, 97,
               114, 103, 101, 58, 32>>),
     \* ' bytes'
     Bytes |->
         BOf(<<32, 98, 121, 116, 101, 115>>),
     \* 'Incomplete message: expected '
     IncompleteMessage |->
         BOf(<<73, 110, 99, 111, 109, 112, 108, 101, 116, 101, 32, 109, 101,
               115, 115, 97, 103, 101, 58, 32, 101, 120, 112, 101, 99, 116, 101,
               100, 32>>),
     \* ' bytes, got '
     BytesGot |->
         BOf(<<32, 98, 121, 116, 101, 115, 44, 32, 103, 111, 116, 32>>),
     \* 'Invalid UTF-8 encoding: '
     InvalidUtf8 |->
         BOf(<<73, 110, 118, 97, 108, 105, 100, 32, 85, 84, 70, 45, 56, 32, 101,
               110, 99, 111, 100, 105, 110, 103, 58, 32>>),
     \* 'Invalid JSON: '
     InvalidJson |->
         BOf(<<73, 110, 118, 97, 108, 105, 100, 32, 74, 83, 79, 78, 58, 32>>)]

\* the largest message length read_message accepts (1024 * 1024)
MaxMessageLength == 1048576

\* raise MessageReadError(error_msg), `used` bytes taken from stdin
MessageReadError(error_msg, used) ==
    [kind |-> "MessageReadError", e |-> error_msg, used |-> used]

\* read_message, lines 127-128 and 132-137: the outcome `message` of
\* json.loads is returned, raised as a MessageReadError, or let through
ParsedPayload(message, used) ==
    IF message.st = "ok"
    THEN [kind |-> "message", message |-> message.v, used |-> used]
    ELSE IF message.st = "err"
         THEN MessageReadError(BCat(ReadText.InvalidJson, message.e), used)
    ELSE IF message.st = "raise"
         THEN [kind |-> "raise", exc |-> message.exc, used |-> used]
    ELSE [kind |-> "unmodelled", used |-> used]

\* read_message, lines 126 and 129-131: the outcome message_str of the decoding
DecodedPayload(message_str, used) ==
    IF ~message_str.ok
    THEN MessageReadError(BCat(ReadText.InvalidUtf8, message_str.e), used)
    ELSE ParsedPayload(json_loads(message_str.s), used)

\* The decoding of message_bytes (the try block of read_message): the
\* message, a MessageReadError, or the exception json.loads lets through.
decode_payload(message_bytes, used) ==
    DecodedPayload(decode_utf8(message_bytes), used)

\* read_message, lines 117-122: the message_bytes read for a length of n
ReadPayload(n, message_bytes) ==
    IF BLen(message_bytes) # n
    THEN MessageReadError(
             BCat(BCat(BCat(ReadText.IncompleteMessage, Dec(n)), ReadText.BytesGot),
                  Dec(BLen(message_bytes))),
             4 + BLen(message_bytes))
    ELSE decode_payload(message_bytes, 4 + n)

\* the size check with >= in place of >: a variant that rejects a message of
\* exactly the largest length
ReadLengthInclusive(input, message_length) ==
    IF U32Greater(message_length, U32(MaxMessageLength - 1))
    THEN MessageReadError(
             BCat(BCat(ReadText.MessageTooLarge, U32Text(message_length)), ReadText.Bytes),
             4)
    ELSE ReadPayload(U32Int(message_length),
                     BTake(BDrop(input, 4), U32Int(message_length)))

\* read_message, lines 107-117: the length that was unpacked
ReadLength(input, message_length) ==
    IF U32Greater(message_length, U32(MaxMessageLength))
    THEN MessageReadError(
             BCat(BCat(ReadText.MessageTooLarge, U32Text(message_length)), ReadText.Bytes),
             4)
    ELSE ReadPayload(U32Int(message_length),
                     BTake(BDrop(input, 4), U32Int(message_length)))

\* the check of the prefix with a short prefix taken for the end of the
\* stream: a variant that ends the loop on 1 to 3 bytes
ReadPrefixShortIsEof(input, length_bytes) ==
    IF BLen(length_bytes) # 4
    THEN [kind |-> "EndOfInput", used |-> BLen(length_bytes)]
    ELSE ReadLength(input, unpack_uint32(BFlat(length_bytes)))

\* the read of the prefix with a short prefix left on the stream: a variant
\* that reports 1 to 3 bytes and takes none of them
ReadPrefixPeeks(input, length_bytes) ==
    IF BLen(length_bytes) = 0 THEN [kind |-> "EndOfInput", used |-> 0]
    ELSE IF BLen(length_bytes) # 4
         THEN MessageReadError(
                  BCat(ReadText.InvalidLengthPrefix, Dec(BLen(length_bytes))),
                  0)
    ELSE ReadLength(input, unpack_uint32(BFlat(length_bytes)))

\* read_message, lines 95-104: the length_bytes that were read
ReadPrefix(input, length_bytes) ==
    IF BLen(length_bytes) = 0 THEN [kind |-> "EndOfInput", used |-> 0]
    ELSE IF BLen(length_bytes) # 4
         THEN MessageReadError(
                  BCat(ReadText.InvalidLengthPrefix, Dec(BLen(length_bytes))),
                  BLen(length_bytes))
    ELSE ReadLength(input, unpack_uint32(BFlat(length_bytes)))

\* read_message() on the bytes `input` that remain on stdin before the
\* stream ends: what it returns or raises, and the bytes it takes.
\* stdin.buffer.read(n) blocks until n bytes or the end of the stream.
read_message(input) == ReadPrefix(input, BTake(input, 4))

(***************************************************************************)
(* System audio control: execute_osascript and its three callers           *)
(***************************************************************************)

\* the error texts of execute_osascript
OsascriptText ==
    [\* 'Unknown osascript error'
     UnknownOsascriptError |->
         BOf(<<85, 110, 107, 110, 111, 119, 110, 32, 111, 115, 97, 115, 99, 114,
               105, 112, 116, 32, 101, 114, 114, 111, 114>>),
     \* 'Command timed out'
     CommandTimedOut |->
         BOf(<<67, 111, 109, 109, 97, 110, 100, 32, 116, 105, 109, 101, 100, 32,
               111, 117, 116>>),
     \* 'osascript not found'
     OsascriptNotFound |->
         BOf(<<111, 115, 97, 115, 99, 114, 105, 112, 116, 32, 110, 111, 116, 32,
               102, 111, 117, 110, 100>>)]

\* what osascript and the system print or report in the runs of the model
OsascriptOutput ==
    [\* "execution error: Can't get volume settings. (-1728)\n"
     ExecutionError |->
         BOf(<<101, 120, 101, 99, 117, 116, 105, 111, 110, 32, 101, 114, 114,
               111, 114, 58, 32, 67, 97, 110, 39, 116, 32, 103, 101, 116, 32,
               118, 111, 108, 117, 109, 101, 32, 115, 101, 116, 116, 105, 110,
               103, 115, 46, 32, 40, 45, 49, 55, 50, 56, 41, 10>>),
     \* "[Errno 13] Permission denied: 'osascript'"
     PermissionDenied |->
         BOf(<<91, 69, 114, 114, 110, 111, 32, 49, 51, 93, 32, 80, 101, 114,
               109, 105, 115, 115, 105, 111, 110, 32, 100, 101, 110, 105, 101,
               100, 58, 32, 39, 111, 115, 97, 115, 99, 114, 105, 112, 116, 39>>),
     \* 'true\n'
     TrueLine |->
         BOf(<<116, 114, 117, 101, 10>>),
     \* 'false\n'
     FalseLine |->
         BOf(<<102, 97, 108, 115, 101, 10>>),
     \* '\n'
     Newline |->
         BOf(<<10>>)]

\* the error texts of process_command
CommandText ==
    [\* 'Invalid message format'
     InvalidMessageFormat |->
         BOf(<<73, 110, 118, 97, 108, 105, 100, 32, 109, 101, 115, 115, 97, 103,
               101, 32, 102, 111, 114, 109, 97, 116>>),
     \* 'No command specified'
     NoCommandSpecified |->
         BOf(<<78, 111, 32, 99, 111, 109, 109, 97, 110, 100, 32, 115, 112, 101,
               99, 105, 102, 105, 101, 100>>),
     \* 'Failed to mute'
     FailedToMute |->
         BOf(<<70, 97, 105, 108, 101, 100, 32, 116, 111, 32, 109, 117, 116, 101>>),
     \* 'Failed to unmute'
     FailedToUnmute |->
         BOf(<<70, 97, 105, 108, 101, 100, 32, 116, 111, 32, 117, 110, 109, 117,
               116, 101>>),
     \* 'Failed to get status'
     FailedToGetStatus |->
         BOf(<<70, 97, 105, 108, 101, 100, 32, 116, 111, 32, 103, 101, 116, 32,
               115, 116, 97, 116, 117, 115>>),
     \* 'Unknown command: '
     UnknownCommand |->
         BOf(<<85, 110, 107, 110, 111, 119, 110, 32, 99, 111, 109, 109, 97, 110,
               100, 58, 32>>)]

\* Python's None and a value that is not None
None == [some |-> FALSE]
Some(x) == [some |-> TRUE, val |-> x]

\* a or b with only None replaced: a variant that lets an empty a through
OrElseNone(a, b) == IF a.some THEN a.val ELSE b

\* a or b, for a string or None a
OrElse(a, b) == IF a.some /\ a.val # <<>> THEN a.val ELSE b

\* s.strip() of an ASCII text
IsSpace(c) == c \in {32, 9, 10, 11, 12, 13, 28, 29, 30, 31}

Strip(s) ==
    LET keep == {i \in 1..Len(s) : ~IsSpace(s[i][1])} IN
    IF keep = {} THEN <<>>
    ELSE SubSeq(s, CHOOSE i \in keep : \A j \in keep : i <= j,
                   CHOOSE i \in keep : \A j \in keep : j <= i)

\* s.lower() of an ASCII text
Lower(s) ==
    BJoin([i \in 1..Len(s) |->
              <<IF s[i][1] >= 65 /\ s[i][1] <= 90
                THEN <<s[i][1] + 32, s[i][2]>> ELSE s[i]>>])

\* What running `osascript -e script` can do while the system audio is in the
\* state `muted`: exit 0 with the script done (a query prints the state),
\* exit 1 with some text, only white space or nothing on stderr, run past
\* the timeout (the script done or not), or fail to start.
OsascriptRuns(script, muted) ==
    {[kind |-> "exit", returncode |-> 0, done |-> TRUE, stderr |-> <<>>,
      stdout |-> IF script # "query" THEN <<>>
                 ELSE IF muted THEN OsascriptOutput.TrueLine ELSE OsascriptOutput.FalseLine]}
    \cup {[kind |-> "exit", returncode |-> 1, done |-> FALSE, stdout |-> <<>>,
           stderr |-> e] : e \in {OsascriptOutput.ExecutionError, OsascriptOutput.Newline, <<>>}}
    \cup {[kind |-> "TimeoutExpired", done |-> d] : d \in BOOLEAN}
    \cup {[kind |-> "FileNotFoundError", done |-> FALSE]}
    \cup {[kind |-> "Exception", done |-> FALSE, text |-> e] :
             e \in {OsascriptOutput.PermissionDenied, <<>>}}

\* execute_osascript(script), given what the run did: (success, output, error)
execute_osascript(run) ==
    IF run.kind = "exit"
    THEN IF run.returncode = 0
         THEN [success |-> TRUE, output |-> Some(Strip(run.stdout)),
               error |-> None]
         ELSE [success |-> FALSE, output |-> None,
               error |-> Some(IF run.stderr # <<>> THEN Strip(run.stderr)
                              ELSE OsascriptText.UnknownOsascriptError)]
    ELSE IF run.kind = "TimeoutExpired"
         THEN [success |-> FALSE, output |-> None,
               error |-> Some(OsascriptText.CommandTimedOut)]
    ELSE IF run.kind = "FileNotFoundError"
         THEN [success |-> FALSE, output |-> None,
               error |-> Some(OsascriptText.OsascriptNotFound)]
    ELSE [success |-> FALSE, output |-> None, error |-> Some(run.text)]

\* mute_system_audio(): (success, error)
mute_system_audio(run) ==
    LET r == execute_osascript(run)
    IN  [success |-> r.success, error |-> r.error]

\* unmute_system_audio(): (success, error)
unmute_system_audio(run) ==
    LET r == execute_osascript(run)
    IN  [success |-> r.success, error |-> r.error]

\* get_mute_status(): (success, is_muted, error)
get_mute_status(run) ==
    LET r == execute_osascript(run) IN
    IF ~r.success
    THEN [success |-> FALSE, is_muted |-> None, error |-> r.error]
    ELSE [success |-> TRUE, is_muted |-> Some(Lower(r.output.val) = JsonText.true),
          error |-> None]

\* the state of the system audio after the run of a script
AudioAfter(script, run, muted) ==
    IF ~run.done \/ script = "query" THEN muted ELSE script = "mute"

(***************************************************************************)
(* Responses and process_command                                           *)
(***************************************************************************)

\* the dict send_success_response passes to write_message
success_response == JObj(<<[k |-> Word.success, v |-> JBool(TRUE)]>>)

\* the dict send_error_response(error_message) passes to write_message
error_response(error_message) ==
    JObj(<<[k |-> Word.success, v |-> JBool(FALSE)],
           [k |-> Word.error, v |-> JStr(error_message)]>>)

\* the dict send_status_response(is_muted) passes to write_message
status_response(is_muted) == JObj(<<[k |-> Word.muted, v |-> JBool(is_muted)]>>)

\* the script a message asks for, "none" when it names none: the script whose
\* possible runs the environment offers to process_command
ScriptOf(message) ==
    IF message.t # "obj" THEN "none"
    ELSE LET command == DictGet(message.members, Word.command) IN
         IF ~Truthy(command) THEN "none"
         ELSE IF command = JStr(Word.mute) THEN "mute"
         ELSE IF command = JStr(Word.unmute) THEN "unmute"
         ELSE IF command = JStr(Word.getStatus) THEN "query"
         ELSE "none"

\* process_command(message): the responses it sends and the calls it makes
\* to the audio controller (the script run and the tuple returned), each in
\* order; `run` is what osascript does if it is run
Handled(responses, ran) == [responses |-> responses, ran |-> ran]
Ran(script, result) == [script |-> script, result |-> result]

\* the mute branch with mute_system_audio() called a second time: a variant
\* that runs the script twice for one request
CommandMuteTwice(r) ==
    IF r.success
    THEN Handled(<<success_response>>, <<Ran("mute", r), Ran("mute", r)>>)
    ELSE Handled(<<error_response(OrElse(r.error, CommandText.FailedToMute))>>,
                 <<Ran("mute", r), Ran("mute", r)>>)

\* the mute branch without its test of `success`: a variant that reports
\* success whatever mute_system_audio() returned
CommandMuteUnchecked(r) == Handled(<<success_response>>, <<Ran("mute", r)>>)

\* process_command, lines 303-308: the tuple r came back from
\* mute_system_audio()
CommandMute(r) ==
    IF r.success THEN Handled(<<success_response>>, <<Ran("mute", r)>>)
    ELSE Handled(<<error_response(OrElse(r.error, CommandText.FailedToMute))>>,
                 <<Ran("mute", r)>>)

\* the unmute branch with the fallback text of the mute branch
CommandUnmuteAsMute(r) ==
    IF r.success THEN Handled(<<success_response>>, <<Ran("unmute", r)>>)
    ELSE Handled(<<error_response(OrElse(r.error, CommandText.FailedToMute))>>,
                 <<Ran("unmute", r)>>)

\* process_command, lines 310-315: the tuple r came back from
\* unmute_system_audio()
CommandUnmute(r) ==
    IF r.success THEN Handled(<<success_response>>, <<Ran("unmute", r)>>)
    ELSE Handled(<<error_response(OrElse(r.error, CommandText.FailedToUnmute))>>,
                 <<Ran("unmute", r)>>)

\* the getStatus branch with the call of mute_system_audio in place of
\* get_mute_status: a variant in which the query changes the audio state
CommandGetStatusMutes(r) ==
    IF r.success
    THEN Handled(<<status_response(r.is_muted.val)>>, <<Ran("mute", r)>>)
    ELSE Handled(<<error_response(OrElse(r.error, CommandText.FailedToGetStatus))>>,
                 <<Ran("mute", r)>>)

\* process_command, lines 317-322: the tuple r came back from
\* get_mute_status()
CommandGetStatus(r) ==
    IF r.success
    THEN Handled(<<status_response(r.is_muted.val)>>, <<Ran("query", r)>>)
    ELSE Handled(<<error_response(OrElse(r.error, CommandText.FailedToGetStatus))>>,
                 <<Ran("query", r)>>)

\* the last branch logging the command and sending nothing
CommandUnknownSilent(command) == Handled(<<>>, <<>>)

\* process_command, lines 324-326: any other command
CommandUnknown(command) ==
    Handled(<<error_response(BCat(CommandText.UnknownCommand, Format(command)))>>, <<>>)

\* the test `if command is None` in place of `if not command`: a variant in
\* which a command that is false, 0 or empty reaches the last branch
DispatchNoneOnly(command, run) ==
    IF command = JNull
    THEN Handled(<<error_response(CommandText.NoCommandSpecified)>>, <<>>)
    ELSE IF command = JStr(Word.mute) THEN CommandMute(mute_system_audio(run))
    ELSE IF command = JStr(Word.unmute)
         THEN CommandUnmute(unmute_system_audio(run))
    ELSE IF command = JStr(Word.getStatus)
         THEN CommandGetStatus(get_mute_status(run))
    ELSE CommandUnknown(command)

\* process_command, lines 294-326: message is a dict, and command is
\* message.get("command")
Dispatch(command, run) ==
    IF ~Truthy(command)
    THEN Handled(<<error_response(CommandText.NoCommandSpecified)>>, <<>>)
    ELSE IF command = JStr(Word.mute) THEN CommandMute(mute_system_audio(run))
    ELSE IF command = JStr(Word.unmute)
         THEN CommandUnmute(unmute_system_audio(run))
    ELSE IF command = JStr(Word.getStatus)
         THEN CommandGetStatus(get_mute_status(run))
    ELSE CommandUnknown(command)

process_command(message, run) ==
    IF message.t # "obj"
    THEN Handled(<<error_response(CommandText.InvalidMessageFormat)>>, <<>>)
    ELSE Dispatch(DictGet(message.members, Word.command), run)

\* write_message(message), lines 153-157: the payload and its length prefix
message_bytes_of(message) == Utf8Encode(json_dumps(message))

length_bytes_of(message_bytes) == pack_uint32(BLen(message_bytes))

(***************************************************************************)
(* The input streams of the model                                          *)
(***************************************************************************)

\* the frame that carries a payload: its length prefix and the payload
Frame(payload) == BCat(pack_uint32(BLen(payload)), payload)

\* the request that names a command: '{"command":"' command '"}'
Request(command) ==
    BJoin(<<BOf(<<123, 34, 99, 111, 109, 109, 97, 110, 100, 34, 58, 34>>),
            command,
            BOf(<<34, 125>>)>>)

\* the payloads the peer sends
Payload ==
    [mute |-> Request(Word.mute),
     unmute |-> Request(Word.unmute),
     getStatus |-> Request(Word.getStatus),
     \* '{"command":"frobnicate"}'
     frobnicate |->
         Request(BOf(<<102, 114, 111, 98, 110, 105, 99, 97, 116, 101>>)),
     \* a request of the largest accepted size, its command a run of the
     \* letter a
     maxSize |-> Request(BRep(97, MaxMessageLength - BLen(Request(<<>>)))),
     \* b'{"command":"\xff"}'
     badUtf8 |-> Request(BOf(<<255>>)),
     \* '{"command":"q\"b\\n\n"}': a command with a quote, a backslash and
     \* a line feed in it
     escaped |-> Request(BOf(<<113, 92, 34, 98, 92, 92, 110, 92, 110>>)),
     \* '"mute"'
     string |-> BOf(<<34, 109, 117, 116, 101, 34>>),
     \* '{"other": 1}'
     noCommand |-> BOf(<<123, 34, 111, 116, 104, 101, 114, 34, 58, 32, 49, 125>>),
     \* '{"command": 0, "x": [true, null]}'
     zeroCommand |->
         BOf(<<123, 34, 99, 111, 109, 109, 97, 110, 100, 34, 58, 32, 48, 44,
               32, 34, 120, 34, 58, 32, 91, 116, 114, 117, 101, 44, 32, 110,
               117, 108, 108, 93, 125>>),
     \* '{"command":["mute"]}'
     listCommand |->
         BOf(<<123, 34, 99, 111, 109, 109, 97, 110, 100, 34, 58, 91, 34, 109,
               117, 116, 101, 34, 93, 125>>),
     \* '{"command":'
     badJson |-> BOf(<<123, 34, 99, 111, 109, 109, 97, 110, 100, 34, 58>>),
     \* arrays nested one level deeper than json.loads can go: well-formed
     \* JSON
     tooDeep |-> BCat(BRep(91, MaxJsonDepth + 1), BRep(93, MaxJsonDepth + 1)),
     \* an integer literal of one digit more than int() converts
     bigInt |-> BRep(49, MaxIntDigits + 1),
     \* no byte at all
     empty |-> <<>>]

\* a length prefix that declares one byte more than the limit, with no payload
TooLargePrefix == pack_uint32(MaxMessageLength + 1)

\* a length prefix of 10 followed by the 6 bytes 'abcdef'
TornFrame == BCat(pack_uint32(10), BOf(<<97, 98, 99, 100, 101, 102>>))

\* two bytes of a length prefix
ShortPrefix == BOf(<<18, 0>>)

\* the whole pieces the peer writes: frames, and a length prefix over the
\* limit (the host takes the prefix and nothing after it)
InputChunks ==
    {Frame(Payload[name]) : name \in DOMAIN Payload} \cup {TooLargePrefix}

\* what the peer writes last before it closes the stream: nothing more, or
\* the beginning of a frame
InputTails == {<<>>, TornFrame, ShortPrefix}

\* the number of pieces the peer writes at most
MaxFrames == 2

\* the number of calls of write_message that fail in one run of the host
MaxWriteFailures == 1

(***************************************************************************)
(* The host process: main, with write_message in its three steps           *)
(***************************************************************************)

VARIABLES
    stdin,          \* the bytes the peer has written to the host's stdin
    closed,         \* whether the peer has closed the stream
    consumed,       \* the number of bytes read from stdin
    stdout,         \* the bytes written to sys.stdout.buffer
    flushed,        \* how many of them a flush has delivered
    pc,             \* where main stands: "read", "process", "write",
                    \* "payload", "flush" or "exited"
    message,        \* the message read_message returned
    outbox,         \* the responses of this message not yet written, the
                    \* first being the argument of the running write_message
    audio,          \* whether the system audio is muted
    reads,          \* history: one record for each call of read_message:
                    \* what it returned or raised, and the `used` bytes
                    \* of stdin it took from offset `at` on
    sent,           \* history: one record for each call of write_message
    calls,          \* history: one record for each run of osascript
    cause,          \* what ended the loop, "none" while it runs
    exit_code,      \* <<c>> once the process has ended with exit status c
    write_failures  \* the number of calls of write_message that failed

vars == <<stdin, closed, consumed, stdout, flushed, pc, message, outbox, audio,
          reads, sent, calls, cause, exit_code, write_failures>>

Init ==
    /\ stdin = <<>>
    /\ closed = FALSE
    /\ consumed = 0
    /\ stdout = <<>>
    /\ flushed = 0
    /\ pc = "read"
    /\ message = JNull
    /\ outbox = <<>>
    /\ audio \in BOOLEAN
    /\ reads = <<>>
    /\ sent = <<>>
    /\ calls = <<>>
    /\ cause = "none"
    /\ exit_code = <<>>
    /\ write_failures = 0

\* the record of a call write_message(response) made for the current frame:
\* `bytes` is message_bytes as line 154 computes it, `at` the number of bytes
\* on stdout when the call begins
Call(frame, response) ==
    [frame |-> frame, message |-> response,
     bytes |-> message_bytes_of(response), at |-> BLen(stdout),
     status |-> "writing"]

\* The responses to send for the current frame: write_message is called with
\* the first; with none to send, the loop goes back to read_message.
Respond(frame, responses) ==
    /\ outbox' = responses
    /\ IF responses = <<>>
       THEN pc' = "read" /\ sent' = sent
       ELSE pc' = "write" /\ sent' = Append(sent, Call(frame, responses[1]))

\* the handler without its break: a variant in which the loop goes on
LeaveAndGoOn(why) ==
    /\ pc' = "read"
    /\ cause' = why
    /\ exit_code' = exit_code
    /\ flushed' = flushed

\* sys.exit(0), line 359: the interpreter flushes sys.stdout as it shuts
\* down.  With nothing left in the buffer the flush has nothing to do; with
\* bytes left in it (a write_message whose flush failed or that was
\* interrupted) the flush delivers them, or it fails as well.
ExitFlushes == IF flushed < BLen(stdout) THEN BOOLEAN ELSE {TRUE}

\* the loop ends: the finally clause, then sys.exit(0).  The exit status of
\* the process is 0 when the flush of the shutdown succeeds and 120 when it
\* fails.
Leave(why) ==
    /\ pc' = "exited"
    /\ cause' = why
    /\ \E flush_ok \in ExitFlushes :
          /\ flushed' = IF flush_ok THEN BLen(stdout) ELSE flushed
          /\ exit_code' = IF flush_ok THEN <<0>> ELSE <<120>>

\* What reaches stdin while read_message waits: the peer writes one more
\* whole piece, or the beginning of a frame and closes the stream, or only
\* closes the stream; a stream that is closed gives nothing more.
Arrivals ==
    IF closed \/ Len(reads) >= MaxFrames
    THEN {[bytes |-> <<>>, closes |-> TRUE]}
    ELSE {[bytes |-> c, closes |-> FALSE] : c \in InputChunks}
         \cup {[bytes |-> t, closes |-> TRUE] : t \in InputTails}

\* main, lines 343 and 345-350: read_message() and the handling of what it
\* raises.  The reads of read_message block until the bytes asked for have
\* arrived or the stream is closed.
ReadMessage ==
    /\ pc = "read"
    /\ \E a \in Arrivals :
       \E r \in {read_message(BCat(BDrop(stdin, consumed), a.bytes))} :
       /\ r.kind # "unmodelled"
       /\ stdin' = BCat(stdin, a.bytes)
       /\ closed' = a.closes
       /\ consumed' = consumed + r.used
       /\ reads' = Append(reads, r @@ [at |-> consumed])
       /\ IF r.kind = "message"
          THEN /\ message' = r.message
               /\ pc' = "process"
               /\ UNCHANGED <<outbox, sent, cause, exit_code, flushed>>
          ELSE IF r.kind = "MessageReadError"
               THEN /\ Respond(Len(reads) + 1, <<error_response(r.e)>>)
                    /\ UNCHANGED <<message, cause, exit_code, flushed>>
          ELSE IF r.kind = "EndOfInput"
               THEN /\ Leave("EndOfInput")
                    /\ UNCHANGED <<message, outbox, sent>>
          ELSE /\ Leave(r.exc)
               /\ UNCHANGED <<message, outbox, sent>>
    /\ UNCHANGED <<stdout, audio, calls, write_failures>>

\* main, line 344: process_command(message), up to its call of write_message
ProcessCommand ==
    /\ pc = "process"
    /\ \E run \in OsascriptRuns(ScriptOf(message), audio) :
       \E h \in {process_command(message, run)} :
       /\ calls' = calls \o [i \in 1..Len(h.ran) |->
                                [frame |-> Len(reads),
                                 script |-> h.ran[i].script,
                                 result |-> h.ran[i].result]]
       /\ audio' = IF h.ran = <<>> THEN audio
                   ELSE AudioAfter(h.ran[1].script, run, audio)
       /\ Respond(Len(reads), h.responses)
    /\ UNCHANGED <<stdin, closed, consumed, stdout, flushed, message, reads,
                   cause, exit_code, write_failures>>

\* the history of the running call of write_message, with its outcome
Outcome(status) == [sent EXCEPT ![Len(sent)].status = status]

\* write_message without its except clause: a variant in which a failed
\* write leaves the loop
ReturnRaises(status) ==
    /\ outbox' = Tail(outbox)
    /\ sent' = Outcome(status)
    /\ pc' = IF status = "failed" THEN "exited" ELSE "read"

\* write_message returns: the next response of this message, if any, is
\* written, and then the loop reads again
Return(status) ==
    /\ outbox' = Tail(outbox)
    /\ IF Tail(outbox) = <<>>
       THEN pc' = "read" /\ sent' = Outcome(status)
       ELSE /\ pc' = "write"
            /\ sent' = Append(Outcome(status), Call(Len(reads), outbox[2]))

\* write_message, lines 153-158: encode the message, write the length prefix
WriteLength ==
    /\ pc = "write"
    /\ stdout' = BCat(stdout, length_bytes_of(sent[Len(sent)].bytes))
    /\ pc' = "payload"
    /\ UNCHANGED <<stdin, closed, consumed, flushed, message, outbox, audio, reads,
                   sent, calls, cause, exit_code, write_failures>>

\* write_message, line 161: write the payload
WritePayload ==
    /\ pc = "payload"
    /\ stdout' = BCat(stdout, sent[Len(sent)].bytes)
    /\ pc' = "flush"
    /\ UNCHANGED <<stdin, closed, consumed, flushed, message, outbox, audio, reads,
                   sent, calls, cause, exit_code, write_failures>>

\* write_message without line 164: a variant that returns without a flush
FlushSkipped ==
    /\ pc = "flush"
    /\ flushed' = flushed
    /\ Return("written")
    /\ UNCHANGED <<stdin, closed, consumed, stdout, message, audio, reads,
                   calls, cause, exit_code, write_failures>>

\* write_message, lines 164-166: flush, and return
Flush ==
    /\ pc = "flush"
    /\ flushed' = BLen(stdout)
    /\ Return("written")
    /\ UNCHANGED <<stdin, closed, consumed, stdout, message, audio, reads, calls,
                   cause, exit_code, write_failures>>

\* write_message, lines 167-168: an exception raised by the encoding or by
\* the write of the length prefix is logged, and nothing was written
WriteLengthFails ==
    /\ pc = "write"
    /\ write_failures < MaxWriteFailures
    /\ write_failures' = write_failures + 1
    /\ Return("failed")
    /\ UNCHANGED <<stdin, closed, consumed, stdout, flushed, message, audio, reads,
                   calls, cause, exit_code>>

\* write_message, lines 167-168: an exception raised by the write of the
\* payload is logged; none or some of the payload was written
WritePayloadFails ==
    /\ pc = "payload"
    /\ write_failures < MaxWriteFailures
    /\ write_failures' = write_failures + 1
    /\ \E k \in {0, BLen(sent[Len(sent)].bytes) \div 2} :
          stdout' = BCat(stdout, BTake(sent[Len(sent)].bytes, k))
    /\ Return("failed")
    /\ UNCHANGED <<stdin, closed, consumed, flushed, message, audio, reads, calls,
                   cause, exit_code>>

\* write_message, lines 167-168: an exception raised by the flush is logged;
\* the frame stays in the buffer of sys.stdout.buffer
FlushFails ==
    /\ pc = "flush"
    /\ write_failures < MaxWriteFailures
    /\ write_failures' = write_failures + 1
    /\ Return("failed")
    /\ UNCHANGED <<stdin, closed, consumed, stdout, flushed, message, audio, reads,
                   calls, cause, exit_code>>

\* main, lines 352-353: a KeyboardInterrupt, raised wherever the loop stands
Interrupt ==
    /\ pc \in {"read", "process", "write", "payload", "flush"}
    /\ Leave("KeyboardInterrupt")
    /\ UNCHANGED <<stdin, closed, consumed, stdout, message, outbox, audio, reads,
                   sent, calls, write_failures>>

Next ==
    \/ ReadMessage
    \/ ProcessCommand
    \/ WriteLength
    \/ WritePayload
    \/ Flush
    \/ WriteLengthFails
    \/ WritePayloadFails
    \/ FlushFails
    \/ Interrupt

Spec == Init /\ [][Next]_vars

\* the call of read_message at line 343 returns or raises: the loop leaves
\* its read
ReadReturns == pc = "read" /\ pc' \in {"process", "write", "exited"}

\* the call of process_command at line 344 reaches its response
ProcessReturns == pc = "process" /\ pc' \in {"read", "write", "exited"}

\* main with its scheduling: a call of read_message returns when the bytes
\* it waits for have arrived or the stream is closed, and a call of
\* process_command reaches its response, since every run of osascript ends
\* (by itself, or at its timeout of 5 seconds).  A write to stdout waits
\* for the peer to take the bytes, and nothing in the host ends that wait.
LiveSpec == Spec /\ WF_pc(ReadReturns) /\ WF_pc(ProcessReturns)

\* the state of the command loop
Running == pc # "exited"
Terminated == pc = "exited"

(***************************************************************************)
(* The handling of one message: process_command on the values of a set of   *)
(* requests, each read by read_message as the first frame of the stream     *)
(***************************************************************************)

\* the payloads of the requests: values that are no object, objects without
\* a command or with a falsy one, and objects with a command and with other
\* fields
DispatchPayloads ==
    {\* '"mute"'
     BOf(<<34, 109, 117, 116, 101, 34>>),
     \* '0'
     BOf(<<48>>),
     \* 'null'
     BOf(<<110, 117, 108, 108>>),
     \* 'true'
     BOf(<<116, 114, 117, 101>>),
     \* '[]'
     BOf(<<91, 93>>),
     \* '["mute"]'
     BOf(<<91, 34, 109, 117, 116, 101, 34, 93>>),
     \* '{}'
     BOf(<<123, 125>>),
     \* '{"command":null}'
     BOf(<<123, 34, 99, 111, 109, 109, 97, 110, 100, 34, 58, 110, 117, 108,
          108, 125>>),
     \* '{"command":false}'
     BOf(<<123, 34, 99, 111, 109, 109, 97, 110, 100, 34, 58, 102, 97, 108,
          115, 101, 125>>),
     \* '{"command":0}'
     BOf(<<123, 34, 99, 111, 109, 109, 97, 110, 100, 34, 58, 48, 125>>),
     \* '{"command":-0}'
     BOf(<<123, 34, 99, 111, 109, 109, 97, 110, 100, 34, 58, 45, 48, 125>>),
     \* '{"command":""}'
     BOf(<<123, 34, 99, 111, 109, 109, 97, 110, 100, 34, 58, 34, 34, 125>>),
     \* '{"command":[]}'
     BOf(<<123, 34, 99, 111, 109, 109, 97, 110, 100, 34, 58, 91, 93, 125>>),
     \* '{"command":{}}'
     BOf(<<123, 34, 99, 111, 109, 109, 97, 110, 100, 34, 58, 123, 125, 125>>),
     \* '{"x":"mute","command":""}'
     BOf(<<123, 34, 120, 34, 58, 34, 109, 117, 116, 101, 34, 44, 34, 99,
          111, 109, 109, 97, 110, 100, 34, 58, 34, 34, 125>>),
     \* '{"mute":true,"command":null}'
     BOf(<<123, 34, 109, 117, 116, 101, 34, 58, 116, 114, 117, 101, 44, 34,
          99, 111, 109, 109, 97, 110, 100, 34, 58, 110, 117, 108, 108, 125>>),
     \* '{"command":"mute","command":0}'
     BOf(<<123, 34, 99, 111, 109, 109, 97, 110, 100, 34, 58, 34, 109, 117,
          116, 101, 34, 44, 34, 99, 111, 109, 109, 97, 110, 100, 34, 58,
          48, 125>>),
     \* '{"command":"mute"}'
     BOf(<<123, 34, 99, 111, 109, 109, 97, 110, 100, 34, 58, 34, 109, 117,
          116, 101, 34, 125>>),
     \* '{"command":"mute","x":[1,{"command":"unmute"}]}'
     BOf(<<123, 34, 99, 111, 109, 109, 97, 110, 100, 34, 58, 34, 109, 117,
          116, 101, 34, 44, 34, 120, 34, 58, 91, 49, 44, 123, 34, 99, 111,
          109, 109, 97, 110, 100, 34, 58, 34, 117, 110, 109, 117, 116,
          101, 34, 125, 93, 125>>),
     \* '{"other":null,"command":"unmute"}'
     BOf(<<123, 34, 111, 116, 104, 101, 114, 34, 58, 110, 117, 108, 108,
          44, 34, 99, 111, 109, 109, 97, 110, 100, 34, 58, 34, 117, 110,
          109, 117, 116, 101, 34, 125>>),
     \* '{"command":"getStatus","command2":"mute"}'
     BOf(<<123, 34, 99, 111, 109, 109, 97, 110, 100, 34, 58, 34, 103, 101,
          116, 83, 116, 97, 116, 117, 115, 34, 44, 34, 99, 111, 109, 109,
          97, 110, 100, 50, 34, 58, 34, 109, 117, 116, 101, 34, 125>>),
     \* '{"command":true}'
     BOf(<<123, 34, 99, 111, 109, 109, 97, 110, 100, 34, 58, 116, 114, 117,
          101, 125>>),
     \* '{"command":1,"x":""}'
     BOf(<<123, 34, 99, 111, 109, 109, 97, 110, 100, 34, 58, 49, 44, 34,
          120, 34, 58, 34, 34, 125>>),
     \* '{"command":[0]}'
     BOf(<<123, 34, 99, 111, 109, 109, 97, 110, 100, 34, 58, 91, 48, 93,
          125>>),
     \* '{"command":{"command":"mute"}}'
     BOf(<<123, 34, 99, 111, 109, 109, 97, 110, 100, 34, 58, 123, 34, 99,
          111, 109, 109, 97, 110, 100, 34, 58, 34, 109, 117, 116, 101, 34,
          125, 125>>),
     \* '{"command":" mute"}'
     BOf(<<123, 34, 99, 111, 109, 109, 97, 110, 100, 34, 58, 34, 32, 109,
          117, 116, 101, 34, 125>>),
     \* '{"command":"Mute","y":{}}'
     BOf(<<123, 34, 99, 111, 109, 109, 97, 110, 100, 34, 58, 34, 77, 117,
          116, 101, 34, 44, 34, 121, 34, 58, 123, 125, 125>>)}

\* main after its first read_message() has returned the message of one of
\* these requests
DispatchInit ==
    \E p \in DispatchPayloads : \E r \in {read_message(Frame(p))} :
        /\ r.kind = "message"
        /\ stdin = Frame(p)
        /\ closed = FALSE
        /\ consumed = r.used
        /\ stdout = <<>>
        /\ flushed = 0
        /\ pc = "process"
        /\ message = r.message
        /\ outbox = <<>>
        /\ audio \in BOOLEAN
        /\ reads = <<r @@ [at |-> 0]>>
        /\ sent = <<>>
        /\ calls = <<>>
        /\ cause = "none"
        /\ exit_code = <<>>
        /\ write_failures = 0

\* main from there to the next call of read_message
DispatchNext ==
    \/ ProcessCommand
    \/ WriteLength
    \/ WritePayload
    \/ Flush
    \/ WriteLengthFails
    \/ WritePayloadFails
    \/ FlushFails
    \/ Interrupt

DispatchSpec == DispatchInit /\ [][DispatchNext]_vars

(***************************************************************************)
(* Properties                                                              *)
(***************************************************************************)

\* the calls of write_message made for the k-th frame read
CallsFor(k) == {i \in 1..Len(sent) : sent[i].frame = k}

\* the runs of osascript made for the k-th frame read
RunsFor(k) == {i \in 1..Len(calls) : calls[i].frame = k}

\* the iteration that read the k-th frame is over and the loop goes on
Completed(k) == k < Len(reads) \/ (k = Len(reads) /\ pc = "read")

\* the frame the i-th call of write_message puts on the wire
FrameOf(i) == BCat(length_bytes_of(sent[i].bytes), sent[i].bytes)

\* the number of bytes on stdout behind the frame of the i-th call
EndOf(i) == sent[i].at + 4 + BLen(sent[i].bytes)

\* the frame of the i-th call of write_message stands whole on stdout, at the
\* place where the call began to write
OnStdout(i) ==
    BTake(BDrop(stdout, sent[i].at), 4 + BLen(sent[i].bytes)) = FrameOf(i)

\* the frames of all the calls of write_message so far, in the order of the
\* calls
ResponsesInOrder == BJoin([i \in 1..Len(sent) |-> FrameOf(i)])

\* {"success": false, "error": text}
IsErrorResponse(response, text) ==
    response = JObj(<<[k |-> Word.success, v |-> JBool(FALSE)],
                      [k |-> Word.error, v |-> JStr(text)]>>)

\* C1: in every iteration in which read_message returned a decoded message,
\* process_command sends exactly one response before the next read_message
\* begins: never more than one call of write_message for the frame, and
\* exactly one once the iteration is over; the frame of that call stands
\* whole on stdout, flushed, unless the write itself failed (C10).
C1_ExactlyOneResponse ==
    \A k \in 1..Len(reads) :
        reads[k].kind = "message" =>
            /\ Cardinality(CallsFor(k)) <= 1
            /\ Completed(k) =>
                  /\ Cardinality(CallsFor(k)) = 1
                  /\ \A i \in CallsFor(k) :
                        \/ sent[i].status = "failed"
                        \/ sent[i].status = "written" /\ OnStdout(i)
                                                      /\ flushed >= EndOf(i)

\* two decoded objects, the second one a command run by the audio
\* controller, each answered once, and the loop back at read_message
C1_Witness ==
    /\ pc = "read"
    /\ Len(reads) = 2
    /\ \A k \in 1..2 : reads[k].kind = "message" /\ reads[k].message.t = "obj"
    /\ RunsFor(2) # {}
    /\ \A k \in 1..2 : Cardinality(CallsFor(k)) = 1

\* C2 as amended: the k-th call of write_message answers the k-th frame read
\* and has returned before the read of the next frame starts; a response
\* whose write did not fail stands whole on stdout, behind the responses to
\* the frames before it, and is flushed; when no write has failed, stdout
\* holds exactly the responses to the frames read so far, in their order,
\* all of them flushed when a read starts.
C2_Fifo ==
    /\ \A i \in 1..Len(sent) : sent[i].frame = i
    /\ pc = "read" =>
          /\ Len(sent) = Len(reads)
          /\ \A i \in 1..Len(sent) : sent[i].status \in {"written", "failed"}
    /\ \A i \in 1..Len(sent) :
          sent[i].status = "written" =>
              /\ OnStdout(i)
              /\ flushed >= EndOf(i)
              /\ \A j \in (i + 1)..Len(sent) : sent[j].at >= EndOf(i)
    /\ write_failures = 0 =>
          /\ BStartsWith(ResponsesInOrder, stdout)
          /\ pc = "read" =>
                stdout = ResponsesInOrder /\ flushed = BLen(stdout)

\* two well-formed requests read one after the other, and exactly their two
\* responses on stdout, in the order of the requests
C2_Witness ==
    /\ pc = "read"
    /\ Len(reads) = 2
    /\ \A k \in 1..2 : reads[k].kind = "message" /\ reads[k].message.t = "obj"
    /\ reads[1].message # reads[2].message
    /\ Len(sent) = 2
    /\ sent[1].message # sent[2].message
    /\ stdout = BCat(FrameOf(1), FrameOf(2))
    /\ flushed = BLen(stdout)

\* C2 as stated: the k-th response written to stdout answers the k-th frame
\* read, and the read of the next frame never starts before the response to
\* the frame before it has been written and flushed.
C2_FifoOnStdout ==
    /\ \A i \in 1..Len(sent) : sent[i].frame = i
    /\ BStartsWith(ResponsesInOrder, stdout)
    /\ pc = "read" =>
          /\ Len(sent) = Len(reads)
          /\ stdout = ResponsesInOrder
          /\ flushed = BLen(stdout)

\* C3: an exception other than EndOfInput and MessageReadError that escapes
\* read_message or process_command is caught at the loop boundary and does not
\* end the loop: after it the loop is still Running.
C3_UnexpectedExceptionCaught ==
    \A k \in 1..Len(reads) :
        reads[k].kind = "raise" => (Running \/ cause = "KeyboardInterrupt")

\* the bytes the peer has written from the place where the k-th read began
InputOf(k) == BDrop(stdin, reads[k].at)

\* the length the prefix of the k-th read declares, for a prefix of 4 bytes
DeclaredBy(k) == unpack_uint32(BFlat(BTake(InputOf(k), 4)))

\* the descriptions read_message gives of a malformed frame
MalformedFrameTexts ==
    {ReadText.InvalidLengthPrefix, ReadText.MessageTooLarge, ReadText.IncompleteMessage,
     ReadText.InvalidUtf8, ReadText.InvalidJson}

\* C4: every malformed frame (a length prefix of 1 to 3 bytes, a declared
\* length above 1,048,576, fewer payload bytes than declared, invalid UTF-8,
\* invalid JSON) is a MessageReadError, makes the loop send exactly one
\* response {"success": false, "error": <description>} and leaves the loop
\* Running to read again; none of them ends the loop.
C4_MalformedFrameReported ==
    \A k \in 1..Len(reads) :
        /\ (BLen(InputOf(k)) \in 1..3
            \/ (BLen(InputOf(k)) >= 4
                /\ \/ U32Greater(DeclaredBy(k), U32(MaxMessageLength))
                   \/ BLen(InputOf(k)) < 4 + U32Int(DeclaredBy(k))))
              => reads[k].kind = "MessageReadError"
        /\ reads[k].kind = "MessageReadError" =>
              /\ \E t \in MalformedFrameTexts : BStartsWith(reads[k].e, t)
              /\ CallsFor(k) = {k}
              /\ IsErrorResponse(sent[k].message, reads[k].e)
              /\ RunsFor(k) = {}
              /\ k = Len(reads) =>
                    \/ pc \in {"write", "payload", "flush", "read"}
                    \/ pc = "exited" /\ cause = "KeyboardInterrupt"

\* a length over the limit and then a prefix of two bytes, each answered by
\* one error response, and the loop back at read_message
C4_Witness ==
    /\ pc = "read"
    /\ Len(reads) = 2
    /\ reads[1].kind = "MessageReadError"
    /\ BStartsWith(reads[1].e, ReadText.MessageTooLarge)
    /\ reads[2].kind = "MessageReadError"
    /\ BStartsWith(reads[2].e, ReadText.InvalidLengthPrefix)
    /\ Len(sent) = 2
    /\ \A i \in 1..2 : sent[i].status = "written"

\* C5: a read of 0 bytes for the length prefix ends the loop, with no
\* response and no run of osascript for it, and once the loop has ended
\* nothing more is read, written or run.
C5_EndOfStreamTerminates ==
    /\ [](\A k \in 1..Len(reads) :
             reads[k].kind = "EndOfInput" =>
                 /\ k = Len(reads)
                 /\ reads[k].used = 0
                 /\ Terminated
                 /\ cause = "EndOfInput"
                 /\ CallsFor(k) = {}
                 /\ RunsFor(k) = {})
    /\ [][Terminated =>
             /\ Terminated'
             /\ UNCHANGED <<consumed, reads, sent, stdout, flushed, calls,
                            audio>>]_vars

\* two frames answered, then the end of the stream
C5_Witness ==
    /\ Terminated
    /\ cause = "EndOfInput"
    /\ Len(reads) = 3
    /\ Len(sent) = 2
    /\ \A i \in 1..2 : sent[i].status = "written"

\* whether the response to the i-th call tells of a failure
IsFailure(response) ==
    /\ Len(response.members) = 2
    /\ response.members[1] = [k |-> Word.success, v |-> JBool(FALSE)]
    /\ response.members[2].k = Word.error
    /\ response.members[2].v.t = "str"

\* the message of the k-th read could not be processed: it is no object, or
\* its command is unknown, or the audio controller failed
ProcessingFailed(k) ==
    /\ reads[k].kind = "message"
    /\ \/ reads[k].message.t # "obj"
       \/ ScriptOf(reads[k].message) = "none"
       \/ \E i \in RunsFor(k) : ~calls[i].result.success

\* C6: an error that comes from processing one message is reported as an
\* error response and leaves the loop Running, and in every reachable state
\* the loop is Terminated only if the last read signalled the end of the
\* stream or an interrupt occurred.
C6_OnlyEndOfStreamTerminates ==
    /\ \A k \in 1..Len(reads) :
          (ProcessingFailed(k) /\ CallsFor(k) # {}) =>
              \A i \in CallsFor(k) : IsFailure(sent[i].message)
    /\ Terminated =>
          \/ cause = "KeyboardInterrupt"
          \/ cause = "EndOfInput" /\ reads[Len(reads)].kind = "EndOfInput"

\* the error text the controller gave, or the fallback when it gave none
ErrorTextOr(error, fallback) ==
    IF error.some /\ error.val # <<>> THEN error.val ELSE fallback

\* the response specified for a controller command, given the tuple
\* `result` that the controller returned, and for any other truthy command
SpecifiedResponse(command, result) ==
    IF command = JStr(Word.mute) \/ command = JStr(Word.unmute)
    THEN IF result.success
         THEN JObj(<<[k |-> Word.success, v |-> JBool(TRUE)]>>)
         ELSE JObj(<<[k |-> Word.success, v |-> JBool(FALSE)],
                     [k |-> Word.error,
                      v |-> JStr(ErrorTextOr(result.error,
                                             IF command = JStr(Word.mute)
                                             THEN CommandText.FailedToMute
                                             ELSE CommandText.FailedToUnmute))]>>)
    ELSE IF command = JStr(Word.getStatus)
    THEN IF result.success
         THEN JObj(<<[k |-> Word.muted, v |-> JBool(result.is_muted.val)]>>)
         ELSE JObj(<<[k |-> Word.success, v |-> JBool(FALSE)],
                     [k |-> Word.error,
                      v |-> JStr(ErrorTextOr(result.error,
                                             CommandText.FailedToGetStatus))]>>)
    ELSE JObj(<<[k |-> Word.success, v |-> JBool(FALSE)],
                [k |-> Word.error,
                 v |-> JStr(BCat(CommandText.UnknownCommand, Format(command)))]>>)

\* the command of the object the k-th read returned
CommandOf(k) == DictGet(reads[k].message.members, Word.command)

\* the commands the audio controller serves
ControllerCommands == {JStr(Word.mute), JStr(Word.unmute), JStr(Word.getStatus)}

\* C7: for every command among mute, unmute and getStatus and every result
\* of the audio controller, the response sent is the specified one:
\* {"success": true} for mute and unmute that succeed, {"muted": b} for a
\* getStatus that succeeds, b the boolean the controller reported,
\* {"success": false, "error": e} for a failure, e the controller's error
\* text or the fallback of the command when there is none; and any other
\* truthy command c gets {"success": false, "error": "Unknown command: c"}
\* and no call of the controller.
C7_SpecifiedResponse ==
    \A i \in 1..Len(sent) :
        LET k == sent[i].frame IN
        (reads[k].kind = "message" /\ reads[k].message.t = "obj"
            /\ Truthy(CommandOf(k))) =>
            IF CommandOf(k) \in ControllerCommands
            THEN /\ Cardinality(RunsFor(k)) = 1
                 /\ \A j \in RunsFor(k) :
                       sent[i].message =
                           SpecifiedResponse(CommandOf(k), calls[j].result)
            ELSE /\ RunsFor(k) = {}
                 /\ sent[i].message = SpecifiedResponse(CommandOf(k), None)

\* an unmute that failed without an error text, answered with the fallback
\* of unmute, and a getStatus answered with the state the controller reported
C7_Witness ==
    /\ Len(sent) = 2
    /\ \A k \in 1..2 : reads[k].kind = "message" /\ reads[k].message.t = "obj"
    /\ CommandOf(1) = JStr(Word.unmute)
    /\ \E j \in RunsFor(1) :
          ~calls[j].result.success /\ calls[j].result.error = Some(<<>>)
    /\ IsErrorResponse(sent[1].message, CommandText.FailedToUnmute)
    /\ CommandOf(2) = JStr(Word.getStatus)
    /\ \E j \in RunsFor(2) : calls[j].result.success
    /\ sent[2].message = JObj(<<[k |-> Word.muted, v |-> JBool(audio)]>>)

\* C8: every frame on the wire, in both directions, declares a length of at
\* most 1,048,576: no message that read_message accepts and no response
\* that write_message writes has a longer payload.
C8_FramesWithinLimit ==
    /\ \A k \in 1..Len(reads) :
          reads[k].kind = "message" => reads[k].used - 4 <= MaxMessageLength
    /\ \A i \in 1..Len(sent) : BLen(sent[i].bytes) <= MaxMessageLength

\* C9: a prefix that declares exactly 1,048,576 is accepted and its payload
\* read; a prefix that declares more is rejected as too large with only its 4
\* bytes taken; and each read begins at the byte behind the bytes the read
\* before it took.
C9_LengthBoundary ==
    /\ \A k \in 1..Len(reads) :
          BLen(InputOf(k)) >= 4 =>
              IF U32Greater(DeclaredBy(k), U32(MaxMessageLength))
              THEN /\ reads[k].kind = "MessageReadError"
                   /\ reads[k].used = 4
                   /\ reads[k].e = BCat(BCat(ReadText.MessageTooLarge,
                                             U32Text(DeclaredBy(k))),
                                        ReadText.Bytes)
              ELSE /\ reads[k].used =
                          4 + IF BLen(InputOf(k)) - 4 < U32Int(DeclaredBy(k))
                              THEN BLen(InputOf(k)) - 4
                              ELSE U32Int(DeclaredBy(k))
                   /\ reads[k].kind = "MessageReadError" =>
                          ~BStartsWith(reads[k].e, ReadText.MessageTooLarge)
    /\ \A k \in 1..Len(reads) :
          reads[k].at = IF k = 1 THEN 0
                        ELSE reads[k - 1].at + reads[k - 1].used
    /\ reads # <<>> =>
          consumed = reads[Len(reads)].at + reads[Len(reads)].used

\* a prefix that declares 1,048,577 is rejected, and the frame behind it,
\* which declares 1,048,576, is read from the fifth byte on and accepted
C9_Witness ==
    /\ Len(reads) = 2
    /\ reads[1].kind = "MessageReadError"
    /\ reads[1].used = 4
    /\ DeclaredBy(1) = U32(MaxMessageLength + 1)
    /\ reads[2].kind = "message"
    /\ reads[2].at = 4
    /\ DeclaredBy(2) = U32(MaxMessageLength)
    /\ reads[2].used = 4 + MaxMessageLength

\* C10: a failure while a response is encoded or written (at the length
\* prefix, at the payload or at the flush) stays inside write_message: the
\* loop is Running and at read_message right after it, and the message gets
\* no second response.
C10_WriteFailureSwallowed ==
    /\ [](\A i \in 1..Len(sent) :
             sent[i].status = "failed" =>
                 /\ CallsFor(sent[i].frame) = {i}
                 /\ Terminated => cause \in {"EndOfInput", "KeyboardInterrupt",
                                             "RecursionError", "ValueError"}
                 /\ (Terminated /\ cause # "KeyboardInterrupt") =>
                       Len(reads) > sent[i].frame)
    /\ [][write_failures' # write_failures =>
             /\ sent[Len(sent)].status = "writing"
             /\ sent' = [sent EXCEPT ![Len(sent)].status = "failed"]
             /\ pc' = "read"
             /\ cause' = "none"
             /\ UNCHANGED <<reads, calls, audio>>]_vars

\* the response to the first frame was lost to a failed write, and the loop
\* has read the second frame and written its response
C10_Witness ==
    /\ Len(sent) = 2
    /\ sent[1].status = "failed"
    /\ sent[2].status = "written"
    /\ Len(reads) = 2
    /\ pc = "read"

\* C11: every way the process ends from main (the end of the stream, an
\* interrupt at any point of the loop, an exception that escapes the loop)
\* ends with exit code 0.
C11_ExitCodeZero ==
    Terminated => exit_code = <<0>>

\* the frame of the i-th call of write_message, given to read_message, comes
\* back as the message of the call, with all its bytes taken
RoundTrip(i) ==
    read_message(FrameOf(i)) =
        [kind |-> "message", message |-> sent[i].message,
         used |-> 4 + BLen(sent[i].bytes)]

\* C12: the bytes write_message produces for a response (the 4-byte length
\* of the payload, then the payload), fed to read_message, decode to a value
\* equal to the response and take exactly the bytes that were written.
C12_RoundTrip ==
    \A i \in 1..Len(sent) : RoundTrip(i)

\* the runs of the status query that gave a value
StatusRuns == {i \in 1..Len(calls) :
                  calls[i].script = "query" /\ calls[i].result.success}

\* C13: getStatus is a pure query: the step that handles a getStatus request
\* leaves the mute state of the system audio as it was, and status queries
\* with no run of mute or unmute between them all give the same muted
\* value, which is the value of the response sent for each of them.
C13_StatusIsPureQuery ==
    /\ [](/\ \A i \in StatusRuns : \A j \in StatusRuns :
                (i < j /\ \A m \in i..j : calls[m].script = "query") =>
                    calls[i].result.is_muted = calls[j].result.is_muted
          /\ \A i \in StatusRuns : \A c \in CallsFor(calls[i].frame) :
                sent[c].message = status_response(calls[i].result.is_muted.val))
    /\ [][(pc = "process" /\ ScriptOf(message) = "query") => audio' = audio]_vars

\* two getStatus requests one after the other, each answered with the same
\* muted value
C13_Witness ==
    /\ pc = "read"
    /\ Len(reads) = 2
    /\ StatusRuns = {1, 2}
    /\ Len(sent) = 2
    /\ sent[1].message = status_response(audio)
    /\ sent[2].message = sent[1].message
    /\ \A i \in 1..2 : sent[i].status = "written"

\* the values of a command that count as no command: null, false, 0, the
\* empty string, the empty array and the empty object
FalsyCommands ==
    {JNull, JBool(FALSE), JInt(FALSE, BOf(<<48>>)), JInt(TRUE, BOf(<<48>>)),
     JStr(<<>>), JArr(<<>>), JObj(<<>>)}

\* whether the object has a field named command
HasCommand(object) ==
    \E j \in 1..Len(object.members) : object.members[j].k = Word.command

\* the result the audio controller returned for the k-th frame, None when it
\* was not called
ResultFor(k) ==
    IF RunsFor(k) = {} THEN None
    ELSE calls[CHOOSE j \in RunsFor(k) : TRUE].result

\* C14: a decoded value that is no object is answered with "Invalid message
\* format"; an object whose command is absent or falsy with "No command
\* specified"; neither calls the audio controller; and an object with a
\* truthy command is answered as the dispatch table says for that command
\* and the controller's result, whatever its other fields are.
C14_ValidationPrecedence ==
    /\ Completed(1) => Len(sent) = 1
    /\ \A i \in 1..Len(sent) :
          LET k == sent[i].frame IN
          IF reads[k].message.t # "obj"
          THEN /\ IsErrorResponse(sent[i].message,
                                  CommandText.InvalidMessageFormat)
               /\ RunsFor(k) = {}
          ELSE IF ~HasCommand(reads[k].message) \/ CommandOf(k) \in FalsyCommands
          THEN /\ IsErrorResponse(sent[i].message,
                                  CommandText.NoCommandSpecified)
               /\ RunsFor(k) = {}
          ELSE /\ sent[i].message =
                      SpecifiedResponse(CommandOf(k), ResultFor(k))
               /\ (RunsFor(k) # {}) = (CommandOf(k) \in ControllerCommands)

\* an object with a falsy command and a field that names a command was
\* answered with "No command specified", and the loop is back at its read
C14_Witness ==
    /\ pc = "read"
    /\ Len(sent) = 1
    /\ reads[1].message.t = "obj"
    /\ Len(reads[1].message.members) = 2
    /\ CommandOf(1) = JStr(<<>>)
    /\ IsErrorResponse(sent[1].message, CommandText.NoCommandSpecified)
    /\ calls = <<>>

\* the three shapes of a response: {"success": true},
\* {"success": false, "error": <string>} and {"muted": <boolean>}
IsSuccessShape(response) ==
    response = JObj(<<[k |-> Word.success, v |-> JBool(TRUE)]>>)

IsErrorShape(response) ==
    /\ response.t = "obj"
    /\ Len(response.members) = 2
    /\ response.members[1] = [k |-> Word.success, v |-> JBool(FALSE)]
    /\ response.members[2].k = Word.error
    /\ response.members[2].v.t = "str"

IsStatusShape(response) ==
    /\ response.t = "obj"
    /\ Len(response.members) = 1
    /\ response.members[1].k = Word.muted
    /\ response.members[1].v.t = "bool"

\* the k-th frame read is a request with this command, and the controller was
\* run for it with one of these scripts and succeeded
Succeeded(k, commands, scripts) ==
    /\ reads[k].kind = "message"
    /\ reads[k].message.t = "obj"
    /\ CommandOf(k) \in commands
    /\ \E j \in RunsFor(k) :
          calls[j].script \in scripts /\ calls[j].result.success

\* C15: every response sent has one of the three shapes; a Status response
\* is sent only in reply to a getStatus whose controller call succeeded, and
\* a Success response only in reply to a mute or unmute whose controller
\* call succeeded.
C15_ResponseShapes ==
    \A i \in 1..Len(sent) :
        /\ \/ IsSuccessShape(sent[i].message)
           \/ IsErrorShape(sent[i].message)
           \/ IsStatusShape(sent[i].message)
        /\ IsStatusShape(sent[i].message) =>
              Succeeded(sent[i].frame, {JStr(Word.getStatus)}, {"query"})
        /\ IsSuccessShape(sent[i].message) =>
              \/ Succeeded(sent[i].frame, {JStr(Word.mute)}, {"mute"})
              \/ Succeeded(sent[i].frame, {JStr(Word.unmute)}, {"unmute"})

\* a mute answered with a Success response, then a getStatus answered with a
\* Status response
C15_Witness ==
    /\ Len(sent) = 2
    /\ IsSuccessShape(sent[1].message)
    /\ CommandOf(1) = JStr(Word.mute)
    /\ IsStatusShape(sent[2].message)
    /\ sent[2].status = "written"

\* the script of the controller operation a command names: mute() runs
\* "mute", unmute() runs "unmute", queryMuted() runs "query"
OperationOf(command) ==
    IF command = JStr(Word.mute) THEN "mute"
    ELSE IF command = JStr(Word.unmute) THEN "unmute"
    ELSE "query"

\* C16: the audio controller is called at most once for a frame, and only
\* for the operation the command names; a malformed frame, a value that is no
\* object, a missing or falsy command, an unknown command and the end of the
\* stream cause no call of the controller.
C16_ControllerCalls ==
    /\ \A k \in 1..Len(reads) :
          /\ Cardinality(RunsFor(k)) <= 1
          /\ RunsFor(k) # {} =>
                /\ reads[k].kind = "message"
                /\ reads[k].message.t = "obj"
                /\ CommandOf(k) \in ControllerCommands
                /\ \A j \in RunsFor(k) :
                      calls[j].script = OperationOf(CommandOf(k))
    /\ \A j \in 1..Len(calls) : calls[j].frame \in 1..Len(reads)

\* an unmute, then a request with an unknown command: the controller was
\* called once, with the unmute script, for the first frame
C16_Witness ==
    /\ pc = "read"
    /\ Len(reads) = 2
    /\ \A k \in 1..2 : reads[k].kind = "message" /\ reads[k].message.t = "obj"
    /\ CommandOf(1) = JStr(Word.unmute)
    /\ Len(calls) = 1
    /\ calls[1].script = "unmute"
    /\ calls[1].frame = 1
    /\ Truthy(CommandOf(2))

\* the k-th read was a short read: 1 to 3 bytes of a length prefix, or
\* fewer payload bytes than the prefix declared
ShortRead(k) ==
    /\ reads[k].kind = "MessageReadError"
    /\ \/ BStartsWith(reads[k].e, ReadText.InvalidLengthPrefix)
       \/ BStartsWith(reads[k].e, ReadText.IncompleteMessage)

\* main is inside a call of write_message
InWrite == pc \in {"write", "payload", "flush"}

\* what C17 says of each iteration: a call of read_message takes at least one
\* byte or ends the loop, and a short read is answered with one error
\* response and followed, at the next read, by the end of the stream
IterationsProgress ==
    /\ [](\A k \in 1..Len(reads) :
             ShortRead(k) =>
                 /\ Cardinality(CallsFor(k)) = 1
                 /\ \A i \in CallsFor(k) : IsErrorShape(sent[i].message)
                 /\ k < Len(reads) =>
                       /\ reads[k + 1].kind = "EndOfInput"
                       /\ reads[k + 1].used = 0
                       /\ Len(reads) = k + 1)
    /\ [][reads' # reads => (consumed' > consumed \/ Terminated')]_vars

\* C17 as stated: for a finite input followed by the close of the stream and
\* controller calls that all return, the loop eventually reaches Terminated;
\* every iteration takes at least one byte or terminates, and a short read
\* is followed by one error response and then by the end of the stream.
C17_EventuallyTerminated ==
    IterationsProgress /\ <>Terminated

\* C17 as amended: the same, the loop reaching Terminated unless it stays
\* for ever inside a call of write_message, waiting for the peer to take the
\* bytes written to stdout.
C17_TerminatedUnlessBlockedInWrite ==
    IterationsProgress /\ (<>Terminated \/ <>[]InWrite)

\* a frame answered, then a frame cut short by the end of the stream and
\* answered with an error response, then the end of the stream: the loop has
\* ended
C17_Witness ==
    /\ Terminated
    /\ cause = "EndOfInput"
    /\ Len(reads) = 3
    /\ reads[1].kind = "message"
    /\ ShortRead(2)
    /\ Len(sent) = 2
    /\ IsErrorShape(sent[2].message)
    /\ consumed = BLen(stdin)

\* whether the bytes s are a concatenation of complete frames, each a 4-byte
\* length prefix followed by exactly that many bytes
RECURSIVE WellFramed(_)
WellFramed(s) ==
    \/ s = <<>>
    \/ /\ BLen(s) >= 4
       /\ BLen(s) - 4 >= U32Int(unpack_uint32(BFlat(BTake(s, 4))))
       /\ WellFramed(BDrop(s, 4 + U32Int(unpack_uint32(BFlat(BTake(s, 4))))))

\* C18: whenever the loop is about to start a read, or is blocked in one,
\* the bytes written so far to stdout are a concatenation of complete
\* frames: no call of write_message, one that fails part-way included,
\* leaves a length prefix without its full payload on the output.
C18_CompleteFrames ==
    pc = "read" => WellFramed(stdout)

\* the text in the error field of an Error response
ErrorTextOf(response) == response.members[2].v.s

\* C19: every Error response sent carries a non-empty string in its error
\* field, whichever path produced it: the description of a malformed frame,
\* "Invalid message format", "No command specified", "Unknown command: ..."
\* and the failure of a controller call, whose error text is replaced by the
\* fixed fallback when it is None or empty.
C19_ErrorTextNonEmpty ==
    \A i \in 1..Len(sent) :
        sent[i].message.members[1] = [k |-> Word.success, v |-> JBool(FALSE)] =>
            /\ IsErrorShape(sent[i].message)
            /\ ErrorTextOf(sent[i].message) # <<>>
            /\ \A j \in RunsFor(sent[i].frame) :
                  ErrorTextOf(sent[i].message) =
                      IF calls[j].result.error \in {None, Some(<<>>)}
                      THEN IF calls[j].script = "mute" THEN CommandText.FailedToMute
                           ELSE IF calls[j].script = "unmute"
                                THEN CommandText.FailedToUnmute
                                ELSE CommandText.FailedToGetStatus
                      ELSE calls[j].result.error.val

\* an unmute whose controller call failed with an empty error text was
\* answered with the fallback, after a malformed frame was answered with its
\* description
C19_Witness ==
    /\ Len(sent) = 2
    /\ reads[1].kind = "MessageReadError"
    /\ IsErrorResponse(sent[1].message, reads[1].e)
    /\ \E j \in RunsFor(sent[2].frame) :
          /\ calls[j].script = "unmute"
          /\ calls[j].result.error = Some(<<>>)
    /\ IsErrorResponse(sent[2].message, CommandText.FailedToUnmute)
    /\ sent[2].status = "written"

=============================================================================
